---- MODULE Spec2Model ----
(***************************************************************************)
(* Hardware-diagnostics scoring engine: the dispatcher                     *)
(* (backend/services/evaluateDevice.js) and the scoring rules              *)
(* (backend/rules/healthRules.js), modelled as a state machine whose state *)
(* is the module-level configuration tables, the payload handed to the     *)
(* last call and the envelope that call returned.  The frontend that shows *)
(* the envelopes is modelled next to it: the live-evaluation hook          *)
(* (hooks/useLiveEvaluation.js) and the history of the dashboard           *)
(* (pages/Dashboard.jsx).                                                  *)
(*                                                                         *)
(* JavaScript values are records [t, n, b, s, props]: t is the type tag,   *)
(* n the numeric value in fixed point (SCALE units per 1), b the boolean,  *)
(* s the string, props the own properties of an object.                    *)
(***************************************************************************)
EXTENDS Integers, Sequences, FiniteSets, TLC

VARIABLES
    tables,      \* the module-level configuration objects of healthRules.js
    input,       \* the argument of the last call
    result,      \* how the last call completed: the envelope it returned or
                 \* the exception it let escape; "none" while the call is pending
    firstInput,  \* the argument of an earlier call the caller has kept
    firstResult, \* the completion of that earlier call
    hook,        \* useLiveEvaluation: its React state, refs, socket and timer
    dashboard    \* Dashboard: the evaluation it was handed, its history state
                 \* and lastEvaluationRef

vars == <<tables, input, result, firstInput, firstResult, hook, dashboard>>

\* the variables of the scoring engine and those of the frontend
engineVars == <<tables, input, result, firstInput, firstResult>>
frontendVars == <<hook, dashboard>>

-----------------------------------------------------------------------------
(* JavaScript values *)

\* resolution of the fixed-point representation of a JavaScript Number
SCALE == 10 * 100

NoProps == <<>>

Undefined == [t |-> "undefined", n |-> 0, b |-> FALSE, s |-> "", props |-> NoProps]
Null == [t |-> "null", n |-> 0, b |-> FALSE, s |-> "", props |-> NoProps]
NaN == [t |-> "NaN", n |-> 0, b |-> FALSE, s |-> "", props |-> NoProps]
Bool(b) == [t |-> "boolean", n |-> 0, b |-> b, s |-> "", props |-> NoProps]
Num(n) == [t |-> "number", n |-> n, b |-> FALSE, s |-> "", props |-> NoProps]
Str(s) == [t |-> "string", n |-> 0, b |-> FALSE, s |-> s, props |-> NoProps]
Obj(props) == [t |-> "object", n |-> 0, b |-> FALSE, s |-> "", props |-> props]
\* an accessor property whose getter throws: s names what it throws
Getter(thrown) == [t |-> "getter", n |-> 0, b |-> FALSE, s |-> thrown, props |-> NoProps]

\* new Error(message): an object whose message property holds the text
Error(message) ==
    [t |-> "object", n |-> 0, b |-> FALSE, s |-> "Error",
     props |-> [k \in {"message"} |-> Str(message)]]

\* the integer k as a JavaScript Number
N(k) == Num(k * SCALE)
True == Bool(TRUE)
False == Bool(FALSE)

IsNaN(v) == v.t = "NaN"
IsNumber(v) == v.t = "number"

\* v === null || v === undefined
Nullish(v) == v.t \in {"undefined", "null"}

\* a ?? b
Coalesce(a, b) == IF Nullish(a) THEN b ELSE a

\* ToBoolean
Truthy(v) ==
    CASE v.t = "boolean" -> v.b
      [] v.t = "number" -> v.n # 0
      [] v.t = "string" -> v.s # ""
      [] v.t = "object" -> TRUE
      [] OTHER -> FALSE

\* a || b
OrElse(a, b) == IF Truthy(a) THEN a ELSE b

\* a === b (NaN is not equal to itself)
StrictEq(a, b) == a.t # "NaN" /\ a = b

\* the strings of the model that are numeric literals, with their values
NumericStrings == [s \in {"0", "5", "150"} |->
                     CASE s = "0" -> 0 [] s = "5" -> 5 [] OTHER -> 150]

\* ToNumber
ToNumber(v) ==
    CASE v.t = "number" -> v
      [] v.t = "NaN" -> NaN
      [] v.t = "undefined" -> NaN
      [] v.t = "null" -> N(0)
      [] v.t = "boolean" -> IF v.b THEN N(1) ELSE N(0)
      [] v.t = "string" -> IF v.s = "" THEN N(0)
                           ELSE IF v.s \in DOMAIN NumericStrings
                                THEN N(NumericStrings[v.s]) ELSE NaN
      [] OTHER -> NaN

\* Math.max(a, b), Math.min(a, b)
MathMax(a, b) ==
    LET max(x, y) == IF IsNaN(x) \/ IsNaN(y) THEN NaN ELSE IF x.n >= y.n THEN x ELSE y
    IN max(ToNumber(a), ToNumber(b))
MathMin(a, b) ==
    LET min(x, y) == IF IsNaN(x) \/ IsNaN(y) THEN NaN ELSE IF x.n <= y.n THEN x ELSE y
    IN min(ToNumber(a), ToNumber(b))

\* a >= b, a > b, a < b on values compared as numbers
GE(a, b) == LET ge(x, y) == ~IsNaN(x) /\ ~IsNaN(y) /\ x.n >= y.n
            IN ge(ToNumber(a), ToNumber(b))
GT(a, b) == LET gt(x, y) == ~IsNaN(x) /\ ~IsNaN(y) /\ x.n > y.n
            IN gt(ToNumber(a), ToNumber(b))
LT(a, b) == LET lt(x, y) == ~IsNaN(x) /\ ~IsNaN(y) /\ x.n < y.n
            IN lt(ToNumber(a), ToNumber(b))

\* a + b, a - b on numbers
Add(a, b) == IF IsNaN(a) \/ IsNaN(b) THEN NaN ELSE Num(a.n + b.n)
Sub(a, b) == LET sub(x, y) == IF IsNaN(x) \/ IsNaN(y) THEN NaN ELSE Num(x.n - y.n)
             IN sub(ToNumber(a), ToNumber(b))

\* a / b and a * b in fixed point
Div(a, b) == IF IsNaN(a) \/ IsNaN(b) \/ b.n = 0 THEN NaN
             ELSE Num((a.n * SCALE) \div b.n)
Mul(a, b) == LET mul(x, y) == IF IsNaN(x) \/ IsNaN(y) THEN NaN
                               ELSE Num((x.n * y.n) \div SCALE)
             IN mul(ToNumber(a), ToNumber(b))

\* Math.round: to the nearest integer, halves upwards
MathRound(a) == IF IsNaN(a) THEN NaN
                ELSE Num(((a.n + SCALE \div 2) \div SCALE) * SCALE)

\* obj[key] on an object or a primitive (a primitive owns none of the keys)
Get(obj, key) == IF obj.t = "object" /\ key \in DOMAIN obj.props
                 THEN obj.props[key] ELSE Undefined

-----------------------------------------------------------------------------
(* healthRules.js: configuration *)

SCORING_CATEGORIES ==
    [FUNCTIONAL_INTEGRITY |-> N(40), PERFORMANCE_RETENTION |-> N(30),
     REMAINING_LIFE |-> N(20), PHYSICAL_THERMAL |-> N(10)]

\* the object's properties in insertion order, as Object.values lists them
REUSABILITY_CLASSIFICATION ==
    << [key |-> "HIGH_GRADE", min |-> N(85), label |-> "High-grade reusable",
        description |-> "Excellent condition, ready for immediate reuse"],
       [key |-> "REUSABLE", min |-> N(70), label |-> "Reusable",
        description |-> "Good condition, minor upgrades recommended"],
       [key |-> "LIMITED", min |-> N(50), label |-> "Limited reuse",
        description |-> "Functional but with notable limitations"],
       [key |-> "NOT_RECOMMENDED", min |-> N(0), label |-> "Not recommended",
        description |-> "Significant issues present, reuse not advised"] >>

PERFORMANCE_SCORING ==
    << [threshold |-> N(95), score |-> N(30)],
       [threshold |-> N(90), score |-> N(25)],
       [threshold |-> N(85), score |-> N(20)],
       [threshold |-> N(80), score |-> N(15)],
       [threshold |-> N(0), score |-> N(5)] >>

SSD_WEAR_SCORING ==
    << [threshold |-> N(20), score |-> N(10)],
       [threshold |-> N(40), score |-> N(7)],
       [threshold |-> N(60), score |-> N(4)],
       [threshold |-> N(100), score |-> N(0)] >>

BATTERY_HEALTH_SCORING ==
    << [threshold |-> N(85), score |-> N(10)],
       [threshold |-> N(70), score |-> N(7)],
       [threshold |-> N(60), score |-> N(4)],
       [threshold |-> N(0), score |-> N(0)] >>

THERMAL_LIMITS ==
    [normal |-> [idle |-> N(50), load |-> N(85)],
     critical |-> [idle |-> N(60), load |-> N(95)]]

\* the decimal literal num/den as a JavaScript Number
Frac(num, den) == Num((num * SCALE) \div den)

WEIGHTS == [cpu |-> Frac(30, 100), ram |-> Frac(25, 100),
            storage |-> Frac(25, 100), battery |-> Frac(20, 100)]
MAX_SCORES == [cpu |-> N(30), ram |-> N(25), storage |-> N(25), battery |-> N(20)]
COMPONENT_THRESHOLDS == [good |-> Frac(8, 10), fair |-> Frac(5, 10)]
OVERALL_THRESHOLDS == [good |-> N(80), fair |-> N(55)]
REUSABILITY ==
    [cpu |-> [reusableMin |-> N(40), idealMin |-> N(70)],
     ram |-> [reusableMin |-> N(4), idealMin |-> N(8)],
     storage |-> [reusableMin |-> N(40), idealMin |-> N(70)],
     battery |-> [reusableMin |-> N(50), idealMin |-> N(75)]]

\* GOOD is the number 1; FAIR and POOR are objects keyed by component
LONGEVITY_PENALTIES ==
    [GOOD |-> N(1),
     FAIR |-> Obj([battery |-> Frac(85, 100), cpu |-> Frac(85, 100),
                   storage |-> Frac(8, 10), ram |-> Frac(85, 100)]),
     POOR |-> Obj([battery |-> Frac(6, 10), cpu |-> Frac(7, 10),
                   storage |-> Frac(8, 10), ram |-> Frac(85, 100)])]

\* the module-level objects as the module leaves them after loading
ModuleTables ==
    [SCORING_CATEGORIES |-> SCORING_CATEGORIES,
     REUSABILITY_CLASSIFICATION |-> REUSABILITY_CLASSIFICATION,
     PERFORMANCE_SCORING |-> PERFORMANCE_SCORING,
     SSD_WEAR_SCORING |-> SSD_WEAR_SCORING,
     BATTERY_HEALTH_SCORING |-> BATTERY_HEALTH_SCORING,
     THERMAL_LIMITS |-> THERMAL_LIMITS,
     WEIGHTS |-> WEIGHTS,
     MAX_SCORES |-> MAX_SCORES,
     COMPONENT_THRESHOLDS |-> COMPONENT_THRESHOLDS,
     OVERALL_THRESHOLDS |-> OVERALL_THRESHOLDS,
     REUSABILITY |-> REUSABILITY,
     LONGEVITY_PENALTIES |-> LONGEVITY_PENALTIES]

-----------------------------------------------------------------------------
(* healthRules.js: utilities *)

clamp(value, min, max) == MathMax(min, MathMin(max, value))

pct(value, max) == MathRound(Mul(Div(value, max), N(100)))

RECURSIVE scoreLookupFrom(_, _, _)
scoreLookupFrom(value, rules, i) ==
    IF i > Len(rules) THEN N(0)
    ELSE IF GE(value, rules[i].threshold) THEN rules[i].score
    ELSE scoreLookupFrom(value, rules, i + 1)

scoreLookup(value, rules) == scoreLookupFrom(value, rules, 1)

normalizeInput(payload) ==
    [storage_smart_status |-> OrElse(Get(payload, "storage_smart_status"), Str("UNKNOWN")),
     ram_test_errors |-> MathMax(N(0), Coalesce(Get(payload, "ram_test_errors"), N(0))),
     cpu_stress_stable |-> Coalesce(Get(payload, "cpu_stress_stable"), False),
     cpu_throttling |-> Coalesce(Get(payload, "cpu_throttling"), False),
     gpu_stress_stable |-> Coalesce(Get(payload, "gpu_stress_stable"), False),
     gpu_artifacts |-> Coalesce(Get(payload, "gpu_artifacts"), False),
     performance_percentage |->
         clamp(Coalesce(Get(payload, "performance_percentage"), N(0)), N(0), N(100)),
     ssd_wear_percentage |->
         clamp(Coalesce(Get(payload, "ssd_wear_percentage"), N(0)), N(0), N(100)),
     battery_health_percent |->
         clamp(Coalesce(Get(payload, "battery_health_percent"), N(0)), N(0), N(100)),
     physical_damage |-> Bool(StrictEq(Get(payload, "physical_damage"), True)),
     port_integrity |-> Bool(~StrictEq(Get(payload, "port_integrity"), False)),
     idle_temperature_celsius |->
         MathMax(N(0), Coalesce(Get(payload, "idle_temperature_celsius"), N(0))),
     load_temperature_celsius |->
         MathMax(N(0), Coalesce(Get(payload, "load_temperature_celsius"), N(0)))]

-----------------------------------------------------------------------------
(* healthRules.js: standardized category scorers *)

storageScore(d) ==
    IF StrictEq(d.storage_smart_status, Str("GOOD")) THEN N(10)
    ELSE IF StrictEq(d.storage_smart_status, Str("WARNING")) THEN N(6)
    ELSE N(0)

\* ramScore with the scores of no error and of one error exchanged
ramScore_swapped(d) ==
    IF StrictEq(d.ram_test_errors, N(0)) THEN N(5)
    ELSE IF StrictEq(d.ram_test_errors, N(1)) THEN N(10)
    ELSE N(0)

ramScore(d) ==
    IF StrictEq(d.ram_test_errors, N(0)) THEN N(10)
    ELSE IF StrictEq(d.ram_test_errors, N(1)) THEN N(5)
    ELSE N(0)

cpuScore(d) ==
    IF StrictEq(d.cpu_stress_stable, True) THEN N(10)
    ELSE IF StrictEq(d.cpu_stress_stable, False) /\ Truthy(d.cpu_throttling) THEN N(6)
    ELSE N(0)


\* gpuScore awarding the cpu's 6 points for the unstable-with-flag case
gpuScore_six(d) ==
    IF StrictEq(d.gpu_stress_stable, True) THEN N(10)
    ELSE IF StrictEq(d.gpu_stress_stable, False) /\ Truthy(d.gpu_artifacts) THEN N(6)
    ELSE N(0)

gpuScore(d) ==
    IF StrictEq(d.gpu_stress_stable, True) THEN N(10)
    ELSE IF StrictEq(d.gpu_stress_stable, False) /\ Truthy(d.gpu_artifacts) THEN N(5)
    ELSE N(0)

scoreFunctionalIntegrity(d) ==
    LET score == Add(Add(Add(storageScore(d), ramScore(d)), cpuScore(d)), gpuScore(d))
    IN [score |-> clamp(score, N(0), tables.SCORING_CATEGORIES.FUNCTIONAL_INTEGRITY),
        details |->
          [storage |-> [score |-> storageScore(d), max |-> N(10),
                        status |-> d.storage_smart_status],
           ram |-> [score |-> ramScore(d), max |-> N(10), errors |-> d.ram_test_errors],
           cpu |-> [score |-> cpuScore(d), max |-> N(10),
                    stable |-> d.cpu_stress_stable, throttling |-> d.cpu_throttling],
           gpu |-> [score |-> gpuScore(d), max |-> N(10),
                    stable |-> d.gpu_stress_stable, artifacts |-> d.gpu_artifacts]]]


\* scorePerformanceRetention without the no-data case: 0 goes through the lookup
scorePerformanceRetention_lookupOnly(d) ==
    LET perfPercent == Coalesce(d.performance_percentage, N(0))
        score == scoreLookup(perfPercent, tables.PERFORMANCE_SCORING)
    IN [score |-> clamp(score, N(0), tables.SCORING_CATEGORIES.PERFORMANCE_RETENTION),
        details |->
          [performancePercent |-> perfPercent,
           benchmarkStatus |-> IF GT(perfPercent, N(0)) THEN "EVALUATED" ELSE "NO_DATA"]]

scorePerformanceRetention(d) ==
    LET perfPercent == Coalesce(d.performance_percentage, N(0))
        score == IF GT(perfPercent, N(0))
                 THEN scoreLookup(perfPercent, tables.PERFORMANCE_SCORING)
                 ELSE N(0)
    IN [score |-> clamp(score, N(0), tables.SCORING_CATEGORIES.PERFORMANCE_RETENTION),
        details |->
          [performancePercent |-> perfPercent,
           benchmarkStatus |-> IF GT(perfPercent, N(0)) THEN "EVALUATED" ELSE "NO_DATA"]]

scoreRemainingLife(d) ==
    LET scored(ssdScore, batteryScore) ==
            [score |-> clamp(Add(ssdScore, batteryScore), N(0),
                             tables.SCORING_CATEGORIES.REMAINING_LIFE),
             details |->
               [ssd |-> [score |-> ssdScore, max |-> N(10),
                         wearPercent |-> Coalesce(d.ssd_wear_percentage, N(0))],
                battery |-> [score |-> batteryScore, max |-> N(10),
                             healthPercent |-> Coalesce(d.battery_health_percent, N(0))]]]
    IN scored(scoreLookup(Sub(N(100), Coalesce(d.ssd_wear_percentage, N(0))),
                          tables.SSD_WEAR_SCORING),
              scoreLookup(Coalesce(d.battery_health_percent, N(0)),
                          tables.BATTERY_HEALTH_SCORING))


\* the thermal assessment trying the normal limits before the critical ones
thermalStatusOf_normalFirst(idleTemp, loadTemp) ==
    IF GT(idleTemp, tables.THERMAL_LIMITS.normal.idle)
       \/ GT(loadTemp, tables.THERMAL_LIMITS.normal.load)
    THEN "CONCERNING"
    ELSE IF GT(idleTemp, tables.THERMAL_LIMITS.critical.idle)
            \/ GT(loadTemp, tables.THERMAL_LIMITS.critical.load)
    THEN "CRITICAL"
    ELSE "NORMAL"

\* the branch the thermal assessment takes: the critical limits are tried first
thermalStatusOf(idleTemp, loadTemp) ==
    IF GT(idleTemp, tables.THERMAL_LIMITS.critical.idle)
       \/ GT(loadTemp, tables.THERMAL_LIMITS.critical.load)
    THEN "CRITICAL"
    ELSE IF GT(idleTemp, tables.THERMAL_LIMITS.normal.idle)
            \/ GT(loadTemp, tables.THERMAL_LIMITS.normal.load)
    THEN "CONCERNING"
    ELSE "NORMAL"

scorePhysicalThermal(d) ==
    LET idleTemp == Coalesce(d.idle_temperature_celsius, N(0))
        loadTemp == Coalesce(d.load_temperature_celsius, N(0))
        \* the score after the damage check, then after the port check
        afterDamage == IF StrictEq(d.physical_damage, True)
                       THEN Sub(N(10), N(4)) ELSE N(10)
        afterPorts(score) == IF StrictEq(d.port_integrity, False)
                             THEN Sub(score, N(2)) ELSE score
        \* the thermal assessment and the returned object
        assessed(score, thermalStatus) ==
            [score |->
               clamp(IF thermalStatus = "CRITICAL" THEN Sub(score, N(4))
                     ELSE IF thermalStatus = "CONCERNING" THEN Sub(score, N(2))
                     ELSE score,
                     N(0), tables.SCORING_CATEGORIES.PHYSICAL_THERMAL),
             details |->
               [physicalDamage |-> OrElse(d.physical_damage, False),
                portIntegrity |-> Bool(~StrictEq(d.port_integrity, False)),
                thermalStatus |-> thermalStatus,
                idleTemp |-> idleTemp,
                loadTemp |-> loadTemp]]
    IN assessed(afterPorts(afterDamage), thermalStatusOf(idleTemp, loadTemp))

-----------------------------------------------------------------------------
(* healthRules.js: classification *)

\* Array.prototype.sort((a, b) => b.min - a.min): stable, descending by min
RECURSIVE insertByMinDesc(_, _)
insertByMinDesc(sorted, e) ==
    IF sorted = << >> THEN << e >>
    ELSE IF sorted[Len(sorted)].min.n >= e.min.n THEN Append(sorted, e)
    ELSE Append(insertByMinDesc(SubSeq(sorted, 1, Len(sorted) - 1), e),
                sorted[Len(sorted)])

RECURSIVE sortByMinDesc(_)
sortByMinDesc(arr) ==
    IF arr = << >> THEN << >>
    ELSE insertByMinDesc(sortByMinDesc(SubSeq(arr, 1, Len(arr) - 1)), arr[Len(arr)])

RECURSIVE firstTierFrom(_, _, _)
firstTierFrom(totalScore, classifications, i) ==
    IF i > Len(classifications)
    THEN CHOOSE c \in {tables.REUSABILITY_CLASSIFICATION[j] :
                         j \in DOMAIN tables.REUSABILITY_CLASSIFICATION} :
             c.key = "NOT_RECOMMENDED"
    ELSE IF GE(totalScore, classifications[i].min) THEN classifications[i]
    ELSE firstTierFrom(totalScore, classifications, i + 1)


\* classifyReusability comparing with > where the code compares with >=
RECURSIVE firstTierAbove(_, _, _)
firstTierAbove(totalScore, classifications, i) ==
    IF i > Len(classifications) THEN classifications[Len(classifications)]
    ELSE IF GT(totalScore, classifications[i].min) THEN classifications[i]
    ELSE firstTierAbove(totalScore, classifications, i + 1)

classifyReusability_strict(totalScore) ==
    firstTierAbove(totalScore, sortByMinDesc(tables.REUSABILITY_CLASSIFICATION), 1)

classifyReusability(totalScore) ==
    firstTierFrom(totalScore, sortByMinDesc(tables.REUSABILITY_CLASSIFICATION), 1)


\* a scan that consumes the shared tier list with shift() instead of a copy
classifyReusabilityTables_shift(t) ==
    IF Len(t.REUSABILITY_CLASSIFICATION) > 1
    THEN [t EXCEPT !.REUSABILITY_CLASSIFICATION = Tail(t.REUSABILITY_CLASSIFICATION)]
    ELSE t

\* what a call of classifyReusability leaves in the module tables: the sort
\* works on the fresh array Object.values returns, never on the table itself
classifyReusabilityTables(t) == t

-----------------------------------------------------------------------------
(* healthRules.js: standardized evaluation *)

\* recs.push(entry) when the condition holds
PushIf(cond, entry) == IF cond THEN << entry >> ELSE << >>

Rec(priority, action, description, args) ==
    [priority |-> priority, action |-> action, description |-> description,
     args |-> args]

\* the hardware checks chained with else-if: a storage entry suppresses the ram entry
generateRecommendations_elseIf(score, classification, functional, remaining, physical) ==
       PushIf(LT(score, N(50)),
              Rec("CRITICAL", "DO NOT REUSE",
                  "Significant issues prevent safe reuse.", << >>))
    \o PushIf(LT(functional.details.storage.score, N(5)),
              Rec("HIGH", "REPLACE STORAGE", "Critical SMART failures detected.", << >>))
    \o PushIf(~LT(functional.details.storage.score, N(5))
              /\ GT(functional.details.ram.errors, N(0)),
              Rec("HIGH", "REPLACE RAM", "${errors} memory errors found.",
                  << functional.details.ram.errors >>))
    \o PushIf(~Truthy(functional.details.cpu.stable),
              Rec("HIGH", "CPU FAILED", "CPU stability test failed.", << >>))
    \o PushIf(GT(remaining.details.ssd.wearPercent, N(80)),
              Rec("HIGH", "SSD END OF LIFE", "SSD wear at ${wearPercent}%.",
                  << remaining.details.ssd.wearPercent >>))
    \o PushIf(LT(remaining.details.battery.healthPercent, N(60)),
              Rec("HIGH", "REPLACE BATTERY", "Battery critically low.", << >>))
    \o PushIf(physical.details.thermalStatus = "CRITICAL",
              Rec("HIGH", "THERMAL ISSUE",
                  "Temps critical: ${idleTemp} C idle, ${loadTemp} C load.",
                  << physical.details.idleTemp, physical.details.loadTemp >>))
    \o PushIf(Truthy(physical.details.physicalDamage),
              Rec("MEDIUM", "INSPECT DAMAGE", "Physical damage detected.", << >>))
    \o (IF GE(score, N(85))
        THEN << Rec("LOW", "READY FOR REUSE", "Excellent condition.", << >>) >>
        ELSE IF GE(score, N(70))
        THEN << Rec("LOW", "MINOR UPGRADES", "Consider component upgrades.", << >>) >>
        ELSE IF GE(score, N(50))
        THEN << Rec("MEDIUM", "LIMITED USE", "Non-critical applications only.", << >>) >>
        ELSE << >>)

\* the outlook written as three independent ifs instead of an else-if chain
generateRecommendations_outlookIfs(score, classification, functional, remaining, physical) ==
       PushIf(LT(score, N(50)),
              Rec("CRITICAL", "DO NOT REUSE",
                  "Significant issues prevent safe reuse.", << >>))
    \o PushIf(LT(functional.details.storage.score, N(5)),
              Rec("HIGH", "REPLACE STORAGE", "Critical SMART failures detected.", << >>))
    \o PushIf(GT(functional.details.ram.errors, N(0)),
              Rec("HIGH", "REPLACE RAM", "${errors} memory errors found.",
                  << functional.details.ram.errors >>))
    \o PushIf(~Truthy(functional.details.cpu.stable),
              Rec("HIGH", "CPU FAILED", "CPU stability test failed.", << >>))
    \o PushIf(GT(remaining.details.ssd.wearPercent, N(80)),
              Rec("HIGH", "SSD END OF LIFE", "SSD wear at ${wearPercent}%.",
                  << remaining.details.ssd.wearPercent >>))
    \o PushIf(LT(remaining.details.battery.healthPercent, N(60)),
              Rec("HIGH", "REPLACE BATTERY", "Battery critically low.", << >>))
    \o PushIf(physical.details.thermalStatus = "CRITICAL",
              Rec("HIGH", "THERMAL ISSUE",
                  "Temps critical: ${idleTemp} C idle, ${loadTemp} C load.",
                  << physical.details.idleTemp, physical.details.loadTemp >>))
    \o PushIf(Truthy(physical.details.physicalDamage),
              Rec("MEDIUM", "INSPECT DAMAGE", "Physical damage detected.", << >>))
    \o PushIf(GE(score, N(85)),
              Rec("LOW", "READY FOR REUSE", "Excellent condition.", << >>))
    \o PushIf(GE(score, N(70)),
              Rec("LOW", "MINOR UPGRADES", "Consider component upgrades.", << >>))
    \o PushIf(GE(score, N(50)),
              Rec("MEDIUM", "LIMITED USE", "Non-critical applications only.", << >>))

\* DO NOT REUSE pushed for a failed disk as well as for a total below 50
generateRecommendations_criticalByStorage(score, classification, functional, remaining, physical) ==
       PushIf(LT(score, N(50)) \/ LT(functional.details.storage.score, N(5)),
              Rec("CRITICAL", "DO NOT REUSE",
                  "Significant issues prevent safe reuse.", << >>))
    \o PushIf(LT(functional.details.storage.score, N(5)),
              Rec("HIGH", "REPLACE STORAGE", "Critical SMART failures detected.", << >>))
    \o PushIf(GT(functional.details.ram.errors, N(0)),
              Rec("HIGH", "REPLACE RAM", "${errors} memory errors found.",
                  << functional.details.ram.errors >>))
    \o PushIf(~Truthy(functional.details.cpu.stable),
              Rec("HIGH", "CPU FAILED", "CPU stability test failed.", << >>))
    \o PushIf(GT(remaining.details.ssd.wearPercent, N(80)),
              Rec("HIGH", "SSD END OF LIFE", "SSD wear at ${wearPercent}%.",
                  << remaining.details.ssd.wearPercent >>))
    \o PushIf(LT(remaining.details.battery.healthPercent, N(60)),
              Rec("HIGH", "REPLACE BATTERY", "Battery critically low.", << >>))
    \o PushIf(physical.details.thermalStatus = "CRITICAL",
              Rec("HIGH", "THERMAL ISSUE",
                  "Temps critical: ${idleTemp} C idle, ${loadTemp} C load.",
                  << physical.details.idleTemp, physical.details.loadTemp >>))
    \o PushIf(Truthy(physical.details.physicalDamage),
              Rec("MEDIUM", "INSPECT DAMAGE", "Physical damage detected.", << >>))
    \o (IF GE(score, N(85))
        THEN << Rec("LOW", "READY FOR REUSE", "Excellent condition.", << >>) >>
        ELSE IF GE(score, N(70))
        THEN << Rec("LOW", "MINOR UPGRADES", "Consider component upgrades.", << >>) >>
        ELSE IF GE(score, N(50))
        THEN << Rec("MEDIUM", "LIMITED USE", "Non-critical applications only.", << >>) >>
        ELSE << >>)

generateRecommendations(score, classification, functional, remaining, physical) ==
       PushIf(LT(score, N(50)),
              Rec("CRITICAL", "DO NOT REUSE",
                  "Significant issues prevent safe reuse.", << >>))
    \o PushIf(LT(functional.details.storage.score, N(5)),
              Rec("HIGH", "REPLACE STORAGE", "Critical SMART failures detected.", << >>))
    \o PushIf(GT(functional.details.ram.errors, N(0)),
              Rec("HIGH", "REPLACE RAM", "${errors} memory errors found.",
                  << functional.details.ram.errors >>))
    \o PushIf(~Truthy(functional.details.cpu.stable),
              Rec("HIGH", "CPU FAILED", "CPU stability test failed.", << >>))
    \o PushIf(GT(remaining.details.ssd.wearPercent, N(80)),
              Rec("HIGH", "SSD END OF LIFE", "SSD wear at ${wearPercent}%.",
                  << remaining.details.ssd.wearPercent >>))
    \o PushIf(LT(remaining.details.battery.healthPercent, N(60)),
              Rec("HIGH", "REPLACE BATTERY", "Battery critically low.", << >>))
    \o PushIf(physical.details.thermalStatus = "CRITICAL",
              Rec("HIGH", "THERMAL ISSUE",
                  "Temps critical: ${idleTemp} C idle, ${loadTemp} C load.",
                  << physical.details.idleTemp, physical.details.loadTemp >>))
    \o PushIf(Truthy(physical.details.physicalDamage),
              Rec("MEDIUM", "INSPECT DAMAGE", "Physical damage detected.", << >>))
    \o (IF GE(score, N(85))
        THEN << Rec("LOW", "READY FOR REUSE", "Excellent condition.", << >>) >>
        ELSE IF GE(score, N(70))
        THEN << Rec("LOW", "MINOR UPGRADES", "Consider component upgrades.", << >>) >>
        ELSE IF GE(score, N(50))
        THEN << Rec("MEDIUM", "LIMITED USE", "Non-critical applications only.", << >>) >>
        ELSE << >>)

\* a total that leaves the physical and thermal category out
sumCategoryScores_noPhysical(functional, performance, remaining, physical) ==
    Add(Add(functional.score, performance.score), remaining.score)

\* functional.score + performance.score + remaining.score + physical.score
sumCategoryScores(functional, performance, remaining, physical) ==
    Add(Add(Add(functional.score, performance.score), remaining.score),
        physical.score)

evaluateDeviceStandardized(diagnostics) ==
    LET caps == tables.SCORING_CATEGORIES
        \* the returned object
        report(functional, performance, remaining, physical, totalScore,
               classification) ==
       [model |-> "STANDARDIZED_REUSABILITY_EVALUATION",
        totalScore |-> totalScore,
        classification |->
          [level |-> classification.label,
           description |-> classification.description,
           minScore |-> classification.min,
           tier |-> IF GE(totalScore, N(85)) THEN "HIGH_GRADE"
                    ELSE IF GE(totalScore, N(70)) THEN "REUSABLE"
                    ELSE IF GE(totalScore, N(50)) THEN "LIMITED"
                    ELSE "NOT_RECOMMENDED"],
        categories |->
          [functionalIntegrity |->
             [label |-> "Functional Integrity", score |-> functional.score,
              maxScore |-> caps.FUNCTIONAL_INTEGRITY,
              percentage |-> pct(functional.score, caps.FUNCTIONAL_INTEGRITY),
              details |-> functional.details],
           performanceRetention |->
             [label |-> "Performance Retention", score |-> performance.score,
              maxScore |-> caps.PERFORMANCE_RETENTION,
              percentage |-> OrElse(performance.details.performancePercent, N(0)),
              details |-> performance.details],
           remainingLife |->
             [label |-> "Remaining Life / Wear Level", score |-> remaining.score,
              maxScore |-> caps.REMAINING_LIFE,
              percentage |-> pct(remaining.score, caps.REMAINING_LIFE),
              details |-> remaining.details],
           physicalThermal |->
             [label |-> "Physical & Thermal Condition", score |-> physical.score,
              maxScore |-> caps.PHYSICAL_THERMAL,
              percentage |-> pct(physical.score, caps.PHYSICAL_THERMAL),
              details |-> physical.details]],
        summary |-> << totalScore, classification.label, classification.description >>,
        calculations |->
          [functionalIntegrity |-> << functional.score, caps.FUNCTIONAL_INTEGRITY >>,
           performanceRetention |-> << performance.score, caps.PERFORMANCE_RETENTION >>,
           remainingLife |-> << remaining.score, caps.REMAINING_LIFE >>,
           physicalThermal |-> << physical.score, caps.PHYSICAL_THERMAL >>,
           total |-> << totalScore, N(100) >>],
        recommendedActions |->
          generateRecommendations(totalScore, classification, functional,
                                  remaining, physical)]
        \* the total of the four category scores and its tier
        classified(functional, performance, remaining, physical, totalScore) ==
            report(functional, performance, remaining, physical, totalScore,
                   classifyReusability(totalScore))
        totalled(functional, performance, remaining, physical) ==
            classified(functional, performance, remaining, physical,
                       sumCategoryScores(functional, performance, remaining,
                                         physical))
        \* the four categories of the normalised diagnostics
        categorised(d) ==
            totalled(scoreFunctionalIntegrity(d), scorePerformanceRetention(d),
                     scoreRemainingLife(d), scorePhysicalThermal(d))
    IN categorised(normalizeInput(diagnostics))

-----------------------------------------------------------------------------
(* healthRules.js: legacy component scorers and health derivation *)

\* 1000 * (i/100)^1.8 for i = 0..100, to the nearest unit
POW_1_8 ==
    << 0, 0, 1, 2, 3, 5, 6, 8, 11, 13,
       16, 19, 22, 25, 29, 33, 37, 41, 46, 50,
       55, 60, 66, 71, 77, 82, 89, 95, 101, 108,
       115, 121, 129, 136, 143, 151, 159, 167, 175, 184,
       192, 201, 210, 219, 228, 238, 247, 257, 267, 277,
       287, 298, 308, 319, 330, 341, 352, 364, 375, 387,
       399, 411, 423, 435, 448, 461, 473, 486, 499, 513,
       526, 540, 554, 568, 582, 596, 610, 625, 639, 654,
       669, 684, 700, 715, 731, 746, 762, 778, 794, 811,
       827, 844, 861, 878, 895, 912, 929, 947, 964, 982,
       1000 >>

\* Math.pow(normalized, 1.8) for normalized within 0..1
MathPow18(normalized) ==
    IF IsNaN(normalized) THEN NaN
    ELSE Num((POW_1_8[(normalized.n * 100) \div SCALE + 1] * SCALE) \div 1000)

\* Number(x.toFixed(2))
toFixed2(x) == IF IsNaN(x) THEN NaN
               ELSE Num(((x.n * 100 + SCALE \div 2) \div SCALE) * (SCALE \div 100))


\* scoreCPU with the clamp left out
scoreCPU_unclamped(percent) == Mul(Div(percent, N(100)), tables.MAX_SCORES.cpu)

scoreCPU(percent) ==
    clamp(Mul(Div(percent, N(100)), tables.MAX_SCORES.cpu), N(0), tables.MAX_SCORES.cpu)

\* scoreRAM with the effective capacity capped at 16 GB instead of 32 GB
scoreRAM_capped16(ramGB) ==
    clamp(Mul(Div(MathMin(ramGB, N(16)), N(16)), tables.MAX_SCORES.ram),
          N(0), tables.MAX_SCORES.ram)

scoreRAM(ramGB) ==
    clamp(Mul(Div(MathMin(ramGB, N(32)), N(32)), tables.MAX_SCORES.ram),
          N(0), tables.MAX_SCORES.ram)
scoreStorage(percent) ==
    clamp(Mul(Div(percent, N(100)), tables.MAX_SCORES.storage),
          N(0), tables.MAX_SCORES.storage)
scoreBattery(percent) ==
    LET normalized == clamp(Div(percent, N(100)), N(0), N(1))
    IN Mul(MathPow18(normalized), tables.MAX_SCORES.battery)

getComponentHealth(score, maxScore) ==
    LET health(ratio) ==
            IF GE(ratio, tables.COMPONENT_THRESHOLDS.good) THEN "GOOD"
            ELSE IF GE(ratio, tables.COMPONENT_THRESHOLDS.fair) THEN "FAIR" ELSE "POOR"
    IN health(Div(score, maxScore))

getOverallHealth(totalScore) ==
    IF GE(totalScore, tables.OVERALL_THRESHOLDS.good) THEN "GOOD"
    ELSE IF GE(totalScore, tables.OVERALL_THRESHOLDS.fair) THEN "FAIR" ELSE "POOR"

\* LONGEVITY_PENALTIES[health] || LONGEVITY_PENALTIES.POOR[component]
penaltyFor(health, component) ==
    OrElse(tables.LONGEVITY_PENALTIES[health],
           tables.LONGEVITY_PENALTIES.POOR.props[component])

estimateLongevityYears(totalScore, components) ==
    LET baseYears == Mul(Div(clamp(totalScore, N(0), N(100)), N(100)), N(6))
        product == Mul(Mul(Mul(Mul(N(1), penaltyFor(components.battery.health, "battery")),
                               penaltyFor(components.cpu.health, "cpu")),
                           penaltyFor(components.storage.health, "storage")),
                       penaltyFor(components.ram.health, "ram"))
    IN Div(MathRound(Mul(MathMax(N(0), Mul(baseYears, product)), N(10))), N(10))

\* sustainability judged by thresholds of its own, 75 and 50
estimateSustainability_ownThresholds(totalScore) ==
    IF GE(totalScore, N(75)) THEN "HIGH"
    ELSE IF GE(totalScore, N(50)) THEN "MEDIUM" ELSE "LOW"

estimateSustainability(totalScore) ==
    IF GE(totalScore, N(80)) THEN "HIGH"
    ELSE IF GE(totalScore, N(55)) THEN "MEDIUM" ELSE "LOW"

\* isReusable judging by the total alone
isReusable_totalOnly(components, totalScore) == GE(totalScore, N(60))

isReusable(components, totalScore) ==
    /\ GE(totalScore, N(60))
    /\ ~\E c \in DOMAIN components : components[c].health = "POOR"

isComponentReusable(component, rawValue) ==
    IF component \notin DOMAIN tables.REUSABILITY
    THEN [reusable |-> FALSE, confidence |-> 0, verdict |-> "UNKNOWN"]
    ELSE LET thresholds == tables.REUSABILITY[component]
         IN IF GE(rawValue, thresholds.idealMin)
            THEN [reusable |-> TRUE, confidence |-> 95, verdict |-> "FULLY REUSABLE"]
            ELSE IF GE(rawValue, thresholds.reusableMin)
            THEN [reusable |-> TRUE, confidence |-> 65,
                  verdict |-> "CONDITIONALLY REUSABLE"]
            ELSE [reusable |-> FALSE, confidence |-> 90, verdict |-> "NOT REUSABLE"]

buildLegacyComponentBreakdown(componentName, rawValue, score, health) ==
    [name |-> componentName,
     rawValue |-> rawValue,
     score |-> score,
     maxScore |-> tables.MAX_SCORES[componentName],
     scorePercent |-> pct(score, tables.MAX_SCORES[componentName]),
     health |-> health,
     weight |-> tables.WEIGHTS[componentName],
     reusability |-> isComponentReusable(componentName, rawValue)]

ComponentOrder == << "cpu", "ram", "storage", "battery" >>

\* (rawScores[c] / MAX_SCORES[c]) * WEIGHTS[c] * 100: a component's share of the total
share(rawScores, c) ==
    Mul(Mul(Div(rawScores[c], tables.MAX_SCORES[c]), tables.WEIGHTS[c]), N(100))

\* the legacy evaluateDevice({ cpu, ram, storage, battery })
scoreDevice(args) ==
    LET \* the returned object
        report(components, totalScore, componentBreakdowns, reusableCount) ==
       [totalScore |-> MathRound(totalScore),
        health |-> getOverallHealth(totalScore),
        components |-> components,
        componentBreakdowns |-> componentBreakdowns,
        reusabilitySummary |->
          [totalComponents |-> 4,
           reusableCount |-> reusableCount,
           nonReusableCount |-> 4 - reusableCount,
           overallReusable |-> isReusable(components, totalScore),
           breakdown |->
             [i \in 1..Len(ComponentOrder) |->
                [component |-> ComponentOrder[i],
                 verdict |-> componentBreakdowns[ComponentOrder[i]].reusability.verdict,
                 reusable |-> componentBreakdowns[ComponentOrder[i]].reusability.reusable,
                 confidence |->
                   componentBreakdowns[ComponentOrder[i]].reusability.confidence]]],
        longevity |->
          [yearsRemaining |-> estimateLongevityYears(totalScore, components),
           sustainability |-> estimateSustainability(totalScore),
           reusable |-> isReusable(components, totalScore)]]
        counted(components, totalScore, componentBreakdowns) ==
            report(components, totalScore, componentBreakdowns,
                   Cardinality({c \in DOMAIN componentBreakdowns :
                                  componentBreakdowns[c].reusability.reusable}))
        \* the components, the weighted total and the breakdowns of the scores
        derived(rawScores, healths) ==
            counted([c \in DOMAIN rawScores |->
                       [score |-> toFixed2(rawScores[c]), health |-> healths[c]]],
                    Add(Add(Add(share(rawScores, "cpu"), share(rawScores, "ram")),
                            share(rawScores, "storage")), share(rawScores, "battery")),
                    [c \in DOMAIN rawScores |->
                       buildLegacyComponentBreakdown(c, args[c], rawScores[c],
                                                     healths[c])])
        judged(rawScores) ==
            derived(rawScores,
                    [c \in DOMAIN rawScores |->
                       getComponentHealth(rawScores[c], tables.MAX_SCORES[c])])
    IN judged([cpu |-> scoreCPU(args.cpu), ram |-> scoreRAM(args.ram),
               storage |-> scoreStorage(args.storage),
               battery |-> scoreBattery(args.battery)])

-----------------------------------------------------------------------------
(* services/evaluateDevice.js: the dispatcher *)

\* how a piece of code completes: normally with a value, or by throwing one
Return(v) == [kind |-> "return", value |-> v]
Throw(v) == [kind |-> "throw", value |-> v]
Pending == [kind |-> "none", value |-> Undefined]

\* what the getter of an accessor property throws
ThrownBy(g) ==
    CASE g.s = "Error" -> Error("getter failed")
      [] g.s = "string" -> Str("boom")
      [] g.s = "null" -> Null
      [] OTHER -> Undefined

\* reading obj.key: the value, or whatever the property's getter throws
Read(obj, key) ==
    LET read(v) == IF v.t = "getter" THEN Throw(ThrownBy(v)) ELSE Return(v)
    IN read(Get(obj, key))


\* a detection list naming every field of the standardized input format
standardizedKeys_allFields ==
    << "storage_smart_status", "ram_test_errors", "cpu_stress_stable",
       "cpu_throttling", "gpu_stress_stable", "gpu_artifacts",
       "performance_percentage", "ssd_wear_percentage", "battery_health_percent",
       "physical_damage", "port_integrity", "idle_temperature_celsius",
       "load_temperature_celsius" >>

standardizedKeys ==
    << "storage_smart_status", "ram_test_errors", "cpu_stress_stable",
       "gpu_stress_stable", "performance_percentage", "ssd_wear_percentage",
       "battery_health_percent", "physical_damage", "idle_temperature_celsius" >>

\* input.hasOwnProperty(key): own keys only, getters are not run
hasOwnProperty(obj, key) == obj.t = "object" /\ key \in DOMAIN obj.props


\* isStandardizedInput testing the fields' values instead of their presence
isStandardizedInput_byValue(payload) ==
    IF Nullish(payload)
    THEN Throw(Error("Cannot read properties of null (reading 'hasOwnProperty')"))
    ELSE Return(\E i \in DOMAIN standardizedKeys :
                    Get(payload, standardizedKeys[i]).t \notin {"undefined", "getter"})

isStandardizedInput(payload) ==
    IF Nullish(payload)
    THEN Throw(Error("Cannot read properties of null (reading 'hasOwnProperty')"))
    ELSE LET call(method) ==
                 IF method.kind = "throw" THEN method
                 ELSE IF hasOwnProperty(payload, "hasOwnProperty")
                 THEN Throw(Error("input.hasOwnProperty is not a function"))
                 ELSE Return(\E i \in DOMAIN standardizedKeys :
                                 hasOwnProperty(payload, standardizedKeys[i]))
         IN call(Read(payload, "hasOwnProperty"))

\* the fields normalizeInput reads, in the order it reads them
normalizeInputReads ==
    << "storage_smart_status", "ram_test_errors", "cpu_stress_stable",
       "cpu_throttling", "gpu_stress_stable", "gpu_artifacts",
       "performance_percentage", "ssd_wear_percentage", "battery_health_percent",
       "physical_damage", "port_integrity", "idle_temperature_celsius",
       "load_temperature_celsius" >>

\* the first of the reads that throws, if any
RECURSIVE firstThrow(_, _, _)
firstThrow(obj, keys, i) ==
    IF i > Len(keys) THEN Return(Undefined)
    ELSE LET next(read) == IF read.kind = "throw" THEN read
                           ELSE firstThrow(obj, keys, i + 1)
         IN next(Read(obj, keys[i]))

\* Number(input[alias] ?? input[name] ?? 0)
legacyField(payload, alias, name) ==
    LET field(first, second) ==
            IF first.kind = "throw" THEN first
            ELSE IF ~Nullish(first.value) THEN Return(ToNumber(first.value))
            ELSE IF second.kind = "throw" THEN second
            ELSE Return(ToNumber(Coalesce(second.value, N(0))))
    IN field(Read(payload, alias), Read(payload, name))

standardizedEnvelope(res) ==
    [evaluationModel |-> "STANDARDIZED_HARDWARE_REUSABILITY",
     standardized |-> res,
     overall |->
       [health |-> IF GE(res.totalScore, N(80)) THEN "GOOD"
                   ELSE IF GE(res.totalScore, N(55)) THEN "FAIR" ELSE "POOR",
        total_score |-> res.totalScore,
        reusable |-> GE(res.totalScore, N(50)),
        classification |-> res.classification.level]]

legacyEnvelope(report) ==
    [evaluationModel |-> "LEGACY_COMPONENT_HEALTH",
     components |-> report.components,
     componentBreakdowns |-> report.componentBreakdowns,
     reusabilitySummary |-> report.reusabilitySummary,
     overall |->
       [health |-> report.health,
        total_score |-> report.totalScore,
        longevity_years |-> Coalesce(report.longevity.yearsRemaining, N(0)),
        sustainability |-> report.longevity.sustainability,
        reusable |-> report.longevity.reusable]]

errorEnvelope(error) ==
    [error |-> Get(error, "message"),
     evaluationModel |-> "ERROR",
     overall |-> [health |-> "UNKNOWN", total_score |-> N(0), reusable |-> FALSE]]

\* the body of the try block
tryEvaluate(payload) ==
    LET \* the standardized pipeline, whose first step reads every field
        standardizedModel(reads) ==
            IF reads.kind = "throw" THEN reads
            ELSE Return(standardizedEnvelope(evaluateDeviceStandardized(payload)))
        \* the legacy pipeline on the four fields read in order
        legacyModel(cpu, ram, storage, battery) ==
            IF cpu.kind = "throw" THEN cpu
            ELSE IF ram.kind = "throw" THEN ram
            ELSE IF storage.kind = "throw" THEN storage
            ELSE IF battery.kind = "throw" THEN battery
            ELSE Return(legacyEnvelope(scoreDevice(
                     [cpu |-> cpu.value, ram |-> ram.value,
                      storage |-> storage.value, battery |-> battery.value])))
        dispatch(standardized) ==
            IF standardized.kind = "throw" THEN standardized
            ELSE IF standardized.value
            THEN standardizedModel(firstThrow(payload, normalizeInputReads, 1))
            ELSE legacyModel(legacyField(payload, "cpu_usage", "cpu"),
                             legacyField(payload, "ram_gb", "ram"),
                             legacyField(payload, "storage_health", "storage"),
                             legacyField(payload, "battery_health", "battery"))
    IN dispatch(isStandardizedInput(payload))

\* the catch block: error.message is read twice, and reading it off null or
\* undefined throws a TypeError that nothing catches
catchError(error) ==
    IF Nullish(error)
    THEN Throw(Error("Cannot read properties of null (reading 'message')"))
    ELSE Return(errorEnvelope(error))

\* module.exports = function evaluateDevice(input = {})
evaluateDevice(arg) ==
    LET completed(body) == IF body.kind = "throw" THEN catchError(body.value) ELSE body
    IN completed(tryEvaluate(IF arg.t = "undefined" THEN Obj(NoProps) ELSE arg))

\* the module tables after a call that completed as given: only a
\* standardized evaluation reaches classifyReusability (a call that throws
\* does so before, while the fields are read), and nothing else touches a table
evaluateDeviceTables(completion) ==
    IF completion.kind = "return"
       /\ completion.value.evaluationModel = "STANDARDIZED_HARDWARE_REUSABILITY"
    THEN classifyReusabilityTables(tables) ELSE tables


\* a normalization that writes the port default back into the caller's object
evaluateDevicePayload_inPlace(arg) ==
    IF arg.t = "object" /\ "port_integrity" \notin DOMAIN arg.props
    THEN Obj(arg.props @@ [k \in {"port_integrity"} |-> True])
    ELSE arg

\* the caller's payload after a call: normalizeInput builds a new object from
\* the fields it reads and the legacy branch only reads, so nothing is written
evaluateDevicePayload(arg) == arg

-----------------------------------------------------------------------------
(* payloads *)

\* a field the payload does not own
Absent == [t |-> "absent", n |-> 0, b |-> FALSE, s |-> "", props |-> NoProps]

\* the object literal owning the fields of f that are not Absent
MkObj(f) == Obj([k \in {j \in DOMAIN f : f[j].t # "absent"} |-> f[k]])

Ints(S) == {N(k) : k \in S}

\* testStandardizedEvaluation.js, TEST 2: the high-grade payload
standardizedHighGrade ==
    [storage_smart_status |-> Str("GOOD"),
     ram_test_errors |-> N(0),
     cpu_stress_stable |-> True,
     cpu_throttling |-> False,
     gpu_stress_stable |-> True,
     gpu_artifacts |-> False,
     performance_percentage |-> N(98),
     ssd_wear_percentage |-> N(15),
     battery_health_percent |-> N(92),
     physical_damage |-> False,
     port_integrity |-> True,
     idle_temperature_celsius |-> N(35),
     load_temperature_celsius |-> N(72)]

\* standardized payloads over representative values of each field
StandardizedPayloads ==
    {MkObj(f) : f \in
       [storage_smart_status : {Str("GOOD"), Str("WARNING"), Str("FAILED")},
        ram_test_errors : Ints({0, 1, 2}),
        cpu_stress_stable : {True, False},
        cpu_throttling : {True, False},
        gpu_stress_stable : {True, False},
        gpu_artifacts : {True},
        performance_percentage : Ints({0, 1, 80, 85, 90, 95}),
        ssd_wear_percentage : Ints({20, 81}),
        battery_health_percent : Ints({59, 60, 70, 85}),
        physical_damage : {True, False},
        port_integrity : {True, False},
        idle_temperature_celsius : Ints({50, 51, 61}),
        load_temperature_celsius : Ints({85})]}

LegacyPayloads ==
    {MkObj(f) : f \in
       [cpu : Ints({-10, 0, 33, 50, 80, 100, 150}),
        ram : Ints({0, 4, 8, 16, 32, 64}),
        storage : Ints({-10, 0, 40, 50, 80, 100}),
        battery : Ints({-10, 0, 50, 75, 99, 100, 150})]}

legacyKeys ==
    {"cpu_usage", "cpu", "ram_gb", "ram", "storage_health", "storage",
     "battery_health", "battery"}

\* the fields of the standardized input format
standardizedFields == {normalizeInputReads[i] : i \in DOMAIN normalizeInputReads}

AllKeys == standardizedFields \cup legacyKeys \cup {"hasOwnProperty"}

\* what a field of a sparse payload may hold
FieldValues ==
    {Undefined, N(50), Getter("Error"), Getter("string"), Getter("null")}

\* the most keys a sparse payload owns
MaxKeys == 2

\* objects owning up to MaxKeys keys of either schema, holding any value
RECURSIVE KeySetsUpTo(_)
KeySetsUpTo(n) ==
    IF n = 0 THEN {{}}
    ELSE LET smaller == KeySetsUpTo(n - 1)
         IN smaller \cup {X \cup {k} : X \in smaller, k \in AllKeys}

SparsePayloads ==
    {Obj(f) : f \in UNION {[K -> FieldValues] : K \in KeySetsUpTo(MaxKeys)}}

\* arguments that are no objects (Undefined is the absent argument)
PrimitiveArguments == {Undefined, Null, N(5), Str("abc"), True}

-----------------------------------------------------------------------------
(* frontend healthRules.js: the classifier of the user interface *)

\* the object's properties in insertion order, as Object.values lists them;
\* badge and color, which only the rendering reads, are left out
REUSABILITY_TIERS ==
    << [key |-> "HIGH_GRADE", score |-> [min |-> N(85), max |-> N(100)],
        label |-> "High-grade reusable",
        description |-> "Excellent condition, ready for immediate reuse"],
       [key |-> "REUSABLE", score |-> [min |-> N(70), max |-> N(84)],
        label |-> "Reusable",
        description |-> "Good condition, minor upgrades recommended"],
       [key |-> "LIMITED", score |-> [min |-> N(50), max |-> N(69)],
        label |-> "Limited reuse",
        description |-> "Functional but with notable limitations"],
       [key |-> "NOT_RECOMMENDED", score |-> [min |-> N(0), max |-> N(49)],
        label |-> "Not recommended",
        description |-> "Significant issues present, reuse not advised"] >>

\* Array.prototype.sort((a, b) => b.score.min - a.score.min)
RECURSIVE insertByScoreMinDesc(_, _)
insertByScoreMinDesc(sorted, e) ==
    IF sorted = << >> THEN << e >>
    ELSE IF sorted[Len(sorted)].score.min.n >= e.score.min.n THEN Append(sorted, e)
    ELSE Append(insertByScoreMinDesc(SubSeq(sorted, 1, Len(sorted) - 1), e),
                sorted[Len(sorted)])

RECURSIVE sortByScoreMinDesc(_)
sortByScoreMinDesc(arr) ==
    IF arr = << >> THEN << >>
    ELSE insertByScoreMinDesc(sortByScoreMinDesc(SubSeq(arr, 1, Len(arr) - 1)),
                              arr[Len(arr)])

\* sorted once, when the module is loaded
SORTED_TIERS == sortByScoreMinDesc(REUSABILITY_TIERS)

\* the tier the scan falls back to
fallbackTier ==
    CHOOSE tier \in {REUSABILITY_TIERS[i] : i \in DOMAIN REUSABILITY_TIERS} :
        tier.key = "NOT_RECOMMENDED"

\* a scan that takes the first tier whose range min..max holds the score
RECURSIVE firstTierHolding(_, _)
firstTierHolding(score, i) ==
    IF i > Len(SORTED_TIERS) THEN fallbackTier
    ELSE IF GE(score, SORTED_TIERS[i].score.min) /\ GE(SORTED_TIERS[i].score.max, score)
    THEN SORTED_TIERS[i]
    ELSE firstTierHolding(score, i + 1)

classifyByStandardized_byRange(score) == firstTierHolding(score, 1)

RECURSIVE firstTierOf(_, _)
firstTierOf(score, i) ==
    IF i > Len(SORTED_TIERS) THEN fallbackTier
    ELSE IF GE(score, SORTED_TIERS[i].score.min) THEN SORTED_TIERS[i]
    ELSE firstTierOf(score, i + 1)

classifyByStandardized(score) == firstTierOf(score, 1)

-----------------------------------------------------------------------------
(* hooks/useLiveEvaluation.js *)

\* setTimeout(connectWebSocket, 3000): the delay in seconds
RECONNECT_SECONDS == 3

\* the most fallback requests in flight, and the socket count from which
\* further sockets are no longer told apart
MaxFetches == 2
MaxSockets == 3

\* the smaller of two numbers
Smaller(a, b) == IF a <= b THEN a ELSE b

\* the hook after the first render: the useState and useRef initial values,
\* the effect not yet run
HookRendered ==
    [effect |-> "pending",
     isMounted |-> FALSE,
     evaluation |-> "null",
     metrics |-> "null",
     connectionStatus |-> "connecting",
     lastUpdate |-> "null",
     error |-> "null",
     \* wsRef.current: the readyState of the socket and how many were built
     readyState |-> "none",
     sockets |-> 0,
     \* reconnectTimeoutRef.current and the timer it names
     reconnectTimeoutRef |-> "null",
     timerPending |-> FALSE,
     timerRemaining |-> 0,
     \* requests of fetchFallback without an answer yet
     fetches |-> 0]

\* fetch(FALLBACK_URL): one more request in flight
fetchFallback(h) == [h EXCEPT !.fetches = @ + 1]

\* .then((data) => ...) of the fallback request
fetchThen(h, data) ==
    IF ~h.isMounted THEN [h EXCEPT !.fetches = @ - 1]
    ELSE [h EXCEPT !.fetches = @ - 1, !.evaluation = data, !.error = "null"]

\* .catch((err) => ...) of the fallback request
fetchCatch(h, message) ==
    IF ~h.isMounted THEN [h EXCEPT !.fetches = @ - 1]
    ELSE [h EXCEPT !.fetches = @ - 1, !.error = message]

\* wsRef.current = new WebSocket(WS_URL), with its four handlers
connectWebSocket(h) ==
    [h EXCEPT !.readyState = "CONNECTING",
              !.sockets = Smaller(@ + 1, MaxSockets)]

onopen(h) ==
    IF ~h.isMounted THEN [h EXCEPT !.readyState = "OPEN"]
    ELSE [h EXCEPT !.readyState = "OPEN", !.connectionStatus = "connected"]

\* what the socket may deliver: event.data after JSON.parse, or text that
\* does not parse
Messages ==
    {[type |-> "evaluation", data |-> "reportA", metrics |-> "metrics"],
     [type |-> "evaluation", data |-> "reportB", metrics |-> "undefined"],
     [type |-> "evaluation", data |-> "null", metrics |-> "metrics"],
     [type |-> "heartbeat", data |-> "reportA", metrics |-> "undefined"],
     [type |-> "unparsable", data |-> "undefined", metrics |-> "undefined"]}

onmessage(h, message) ==
    IF ~h.isMounted THEN h
    ELSE IF message.type = "evaluation" /\ message.data \notin {"null", "undefined"}
    THEN [h EXCEPT !.evaluation = message.data,
                   !.metrics = IF message.metrics = "undefined" THEN "null"
                               ELSE message.metrics,
                   !.lastUpdate = "date",
                   !.error = "null"]
    ELSE h

onerror(h) ==
    IF ~h.isMounted THEN h
    ELSE fetchFallback([h EXCEPT !.connectionStatus = "error"])

\* onclose with the reconnect left out
onclose_noReconnect(h) ==
    IF ~h.isMounted THEN [h EXCEPT !.readyState = "CLOSED"]
    ELSE [h EXCEPT !.readyState = "CLOSED", !.connectionStatus = "disconnected"]

onclose(h) ==
    IF ~h.isMounted THEN [h EXCEPT !.readyState = "CLOSED"]
    ELSE [h EXCEPT !.readyState = "CLOSED",
                   !.connectionStatus = "disconnected",
                   !.reconnectTimeoutRef = "timer",
                   !.timerPending = TRUE,
                   !.timerRemaining = RECONNECT_SECONDS]

\* the body of the effect
effect(h) ==
    connectWebSocket(fetchFallback([h EXCEPT !.effect = "active", !.isMounted = TRUE]))

\* the function the effect returns
cleanup(h) ==
    [h EXCEPT !.effect = "cleaned",
              !.isMounted = FALSE,
              !.readyState = IF @ = "OPEN" THEN "CLOSING" ELSE @,
              !.timerPending = IF h.reconnectTimeoutRef # "null" THEN FALSE ELSE @]

\* the answers the fallback request may get: a report, the JSON null, or a
\* failure (a response that is not ok, a network error)
FetchData == {"reportA", "reportB", "null"}
FetchErrors == {"No diagnostic report available", "Failed to fetch"}

\* React runs the effect after the first render
RunEffect ==
    /\ hook.effect = "pending"
    /\ hook' = effect(hook)
    /\ UNCHANGED <<dashboard, engineVars>>

\* the component is unmounted: React runs the cleanup
Unmount ==
    /\ hook.effect = "active"
    /\ hook' = cleanup(hook)
    /\ UNCHANGED <<dashboard, engineVars>>

SocketOpens ==
    /\ hook.readyState = "CONNECTING"
    /\ hook' = onopen(hook)
    /\ UNCHANGED <<dashboard, engineVars>>

SocketDelivers(message) ==
    /\ hook.readyState = "OPEN"
    /\ hook' = onmessage(hook, message)
    /\ UNCHANGED <<dashboard, engineVars>>

\* the socket reports an error; its close follows as an event of its own
SocketFails ==
    /\ hook.readyState \in {"CONNECTING", "OPEN"}
    /\ hook.fetches < MaxFetches
    /\ hook' = onerror(hook)
    /\ UNCHANGED <<dashboard, engineVars>>

SocketCloses ==
    /\ hook.readyState \in {"CONNECTING", "OPEN", "CLOSING"}
    /\ hook' = onclose(hook)
    /\ UNCHANGED <<dashboard, engineVars>>

FetchResolves(data) ==
    /\ hook.fetches > 0
    /\ hook' = fetchThen(hook, data)
    /\ UNCHANGED <<dashboard, engineVars>>

FetchRejects(message) ==
    /\ hook.fetches > 0
    /\ hook' = fetchCatch(hook, message)
    /\ UNCHANGED <<dashboard, engineVars>>

\* a second passes while the reconnect timer runs
Tick ==
    /\ hook.timerPending
    /\ hook.timerRemaining > 0
    /\ hook' = [hook EXCEPT !.timerRemaining = @ - 1]
    /\ UNCHANGED <<dashboard, engineVars>>

\* the reconnect timer fires: connectWebSocket runs
TimerFires ==
    /\ hook.timerPending
    /\ hook.timerRemaining = 0
    /\ hook' = connectWebSocket([hook EXCEPT !.timerPending = FALSE])
    /\ UNCHANGED <<dashboard, engineVars>>

-----------------------------------------------------------------------------
(* pages/Dashboard.jsx *)

\* .slice(0, 20) of the history and .slice(0, 10) of the table
HISTORY_LIMIT == 20
TABLE_ROWS == 10

\* the most entries the dashboard records in a run
MaxRecorded == 22

\* the dashboard after the first render
DashboardRendered ==
    [evaluation |-> Null,
     history |-> << >>,
     lastEvaluationRef |-> Null,
     \* the clock new Date() reads: it advances with every recorded entry
     clock |-> 0]

\* an envelope as the hook hands it over
StandardizedReport(total, actions) ==
    Obj([evaluationModel |-> Str("STANDARDIZED_HARDWARE_REUSABILITY"),
         standardized |-> Obj([totalScore |-> N(total), recommendedActions |-> N(actions)]),
         overall |-> Obj([total_score |-> N(total)])])
LegacyReport(total) ==
    Obj([evaluationModel |-> Str("LEGACY_COMPONENT_HEALTH"),
         overall |-> Obj([total_score |-> N(total)])])

\* evaluations the hook may hand over: two standardized reports with the same
\* total that differ in their recommendations, and a legacy report
DashboardEvaluations ==
    {StandardizedReport(92, 1), StandardizedReport(92, 2), LegacyReport(70)}

\* a property value as JSON.stringify writes it: undefined leaves the
\* property out, NaN is written as null
jsonProperty(v) ==
    IF v.t = "undefined" THEN Absent ELSE IF IsNaN(v) THEN Null ELSE v

\* JSON.stringify({ standardized, legacy, model }) as the object the text encodes
evaluationKey(evaluation) ==
    MkObj([standardized |->
               jsonProperty(Get(Get(evaluation, "standardized"), "totalScore")),
           legacy |-> jsonProperty(Get(Get(evaluation, "overall"), "total_score")),
           model |-> jsonProperty(Get(evaluation, "evaluationModel"))])

\* arr.slice(0, n)
SliceTo(arr, n) == SubSeq(arr, 1, Smaller(Len(arr), n))

\* the effect on [evaluation]
historyEffect(d, evaluation) ==
    IF ~Truthy(evaluation) THEN [d EXCEPT !.evaluation = evaluation]
    ELSE IF d.lastEvaluationRef = evaluationKey(evaluation)
    THEN [d EXCEPT !.evaluation = evaluation]
    ELSE [d EXCEPT !.evaluation = evaluation,
                   !.lastEvaluationRef = evaluationKey(evaluation),
                   !.history = SliceTo(<< [timestamp |-> d.clock + 1,
                                           data |-> evaluation] >> \o @,
                                       HISTORY_LIMIT),
                   !.clock = @ + 1]

\* the rows of the Recent Evaluations table
historyTable(d) ==
    IF Len(d.history) > 1 THEN SliceTo(d.history, TABLE_ROWS) ELSE << >>

\* the hook hands the dashboard another evaluation and the effect runs
Receive(evaluation) ==
    /\ dashboard.clock < MaxRecorded
    /\ dashboard' = historyEffect(dashboard, evaluation)
    /\ UNCHANGED <<hook, engineVars>>

-----------------------------------------------------------------------------
(* the state machine *)

\* a caller holds a payload and has not called yet
InitWith(payloads) ==
    /\ tables = ModuleTables
    /\ input \in payloads
    /\ result = Pending
    /\ firstInput = Undefined
    /\ firstResult = Pending
    /\ hook = HookRendered
    /\ dashboard = DashboardRendered

\* result = evaluateDevice(input): the call leaves the payload as it was
Evaluate ==
    /\ result' = evaluateDevice(input)
    /\ tables' = evaluateDeviceTables(result')
    /\ input' = evaluateDevicePayload(input)
    /\ UNCHANGED <<firstInput, firstResult>>
    /\ UNCHANGED frontendVars

\* the dispatcher on payloads of both schemas, sparse payloads and primitives
Init ==
    \/ InitWith(StandardizedPayloads)
    \/ InitWith(LegacyPayloads)
    \/ InitWith(SparsePayloads)
    \/ InitWith(PrimitiveArguments)

Next == Evaluate

Spec == Init /\ [][Next]_vars

-----------------------------------------------------------------------------
(* one category at a time: the high-grade payload with the fields of one    *)
(* category ranging over their domain                                       *)

\* base with the fields of f written over it
Override(base, f) ==
    MkObj([k \in DOMAIN base |-> IF k \in DOMAIN f THEN f[k] ELSE base[k]])

\* the largest ram error count, percentage and temperatures tried
MaxErrors == 3
MaxPercent == 101
MaxIdle == 62
MaxLoad == 97

OptionalBooleans == {Absent, True, False}

FunctionalPayloads ==
    {Override(standardizedHighGrade, f) : f \in
       [storage_smart_status :
            {Absent, Str("GOOD"), Str("WARNING"), Str("FAILED"), Str("UNKNOWN")},
        ram_test_errors : {Absent} \cup Ints((0 - 1)..MaxErrors),
        cpu_stress_stable : OptionalBooleans,
        cpu_throttling : OptionalBooleans,
        gpu_stress_stable : OptionalBooleans,
        gpu_artifacts : OptionalBooleans]}

\* whole percentages, and one half below each whole percentage above 0
PerformancePayloads ==
    {Override(standardizedHighGrade, f) : f \in
       [performance_percentage :
            {Absent} \cup Ints((0 - 1)..MaxPercent)
                \cup {Num(k * SCALE - SCALE \div 2) : k \in 1..MaxPercent}]}

LifePayloads ==
    {Override(standardizedHighGrade, f) : f \in
       [ssd_wear_percentage : {Absent} \cup Ints((0 - 1)..MaxPercent),
        battery_health_percent : {Absent} \cup Ints((0 - 1)..MaxPercent)]}

ThermalPayloads ==
    {Override(standardizedHighGrade, f) : f \in
       [physical_damage : OptionalBooleans,
        port_integrity : OptionalBooleans,
        idle_temperature_celsius : {Absent} \cup Ints({0 - 1, 0} \cup 49..MaxIdle),
        load_temperature_celsius : {Absent} \cup Ints({0 - 1, 0} \cup 84..MaxLoad)]}

InitFunctional == InitWith(FunctionalPayloads)
SpecFunctional == InitFunctional /\ [][Next]_vars

InitPerformance == InitWith(PerformancePayloads)
SpecPerformance == InitPerformance /\ [][Next]_vars

InitLife == InitWith(LifePayloads)
SpecLife == InitLife /\ [][Next]_vars

InitThermal == InitWith(ThermalPayloads)
SpecThermal == InitThermal /\ [][Next]_vars

-----------------------------------------------------------------------------
(* raw payloads: the high-grade payload with a few fields holding whatever   *)
(* a caller may send                                                         *)

\* what a raw field may hold: nothing, null, a negative number, a number
\* above 100, the number 1, a string that is no number, a numeric string,
\* a boolean
RawValues ==
    {Absent, Null, N(0 - 5), N(150), N(1), Str("abc"), Str("150"), True, False}

\* the most fields of a raw payload that hold such a value
MaxRawFields == 2

RECURSIVE FieldSetsUpTo(_)
FieldSetsUpTo(n) ==
    IF n = 0 THEN {{}}
    ELSE LET smaller == FieldSetsUpTo(n - 1)
         IN smaller \cup {X \cup {k} : X \in smaller, k \in standardizedFields}

RawPayloads ==
    {Override(standardizedHighGrade, f) :
       f \in UNION {[K -> RawValues] : K \in FieldSetsUpTo(MaxRawFields)}}

InitRaw == InitWith(RawPayloads)
SpecRaw == InitRaw /\ [][Next]_vars

-----------------------------------------------------------------------------
(* a caller that calls again and again and keeps one earlier result          *)

\* testStandardizedEvaluation.js, TEST 1 and TEST 5
legacyInput == [cpu |-> N(65), ram |-> N(8), storage |-> N(75), battery |-> N(80)]

standardizedNotRecommended ==
    [storage_smart_status |-> Str("FAILED"),
     ram_test_errors |-> N(5),
     cpu_stress_stable |-> False,
     cpu_throttling |-> True,
     gpu_stress_stable |-> False,
     gpu_artifacts |-> True,
     performance_percentage |-> N(35),
     ssd_wear_percentage |-> N(85),
     battery_health_percent |-> N(25),
     physical_damage |-> True,
     port_integrity |-> False,
     idle_temperature_celsius |-> N(65),
     load_temperature_celsius |-> N(98)]

\* testStandardizedEvaluation.js, TEST 3 and TEST 4
standardizedReusable ==
    [storage_smart_status |-> Str("GOOD"),
     ram_test_errors |-> N(0),
     cpu_stress_stable |-> True,
     cpu_throttling |-> False,
     gpu_stress_stable |-> True,
     gpu_artifacts |-> False,
     performance_percentage |-> N(85),
     ssd_wear_percentage |-> N(35),
     battery_health_percent |-> N(78),
     physical_damage |-> False,
     port_integrity |-> True,
     idle_temperature_celsius |-> N(42),
     load_temperature_celsius |-> N(78)]

standardizedLimited ==
    [storage_smart_status |-> Str("WARNING"),
     ram_test_errors |-> N(1),
     cpu_stress_stable |-> False,
     cpu_throttling |-> True,
     gpu_stress_stable |-> True,
     gpu_artifacts |-> False,
     performance_percentage |-> N(68),
     ssd_wear_percentage |-> N(55),
     battery_health_percent |-> N(62),
     physical_damage |-> False,
     port_integrity |-> True,
     idle_temperature_celsius |-> N(55),
     load_temperature_celsius |-> N(88)]

\* the legacy payload of TEST 1 with fields holding whatever a caller may
\* send, the cpu under its alias, its plain name or both
RawLegacyPayloads ==
    {Override([cpu_usage |-> Absent] @@ legacyInput, f) : f \in
       [cpu_usage : {Absent, N(70), Str("abc")},
        cpu : RawValues,
        ram : RawValues,
        battery : RawValues]}

InitRawLegacy == InitWith(RawLegacyPayloads)
SpecRawLegacy == InitRawLegacy /\ [][Next]_vars

CallPayloads ==
    {MkObj(standardizedHighGrade), MkObj(standardizedNotRecommended),
     MkObj(standardizedReusable), MkObj(standardizedLimited),
     MkObj(legacyInput),
     Override(standardizedHighGrade, [performance_percentage |-> N(85)]),
     Override(standardizedHighGrade, [performance_percentage |-> N(0)]),
     Override(standardizedHighGrade, [ssd_wear_percentage |-> Getter("Error")]),
     Override(legacyInput, [battery |-> Str("abc")]),
     Obj([k \in {"cpu_throttling"} |-> True]),
     Undefined, Null}

\* the caller takes up another payload
Prepare(p) ==
    /\ input' = p
    /\ result' = Pending
    /\ UNCHANGED <<tables, firstInput, firstResult>>
    /\ UNCHANGED frontendVars

\* the caller keeps the call just made to compare later calls with it
Remember ==
    /\ result.kind # "none"
    /\ firstInput' = input
    /\ firstResult' = result
    /\ UNCHANGED <<tables, input, result>>
    /\ UNCHANGED frontendVars

InitCalls == InitWith(CallPayloads)

NextCalls ==
    \/ Evaluate
    \/ \E p \in CallPayloads : Prepare(p)
    \/ Remember

SpecCalls == InitCalls /\ [][NextCalls]_vars

-----------------------------------------------------------------------------
(* the legacy scorers one component at a time: the legacy payload of TEST 1  *)
(* with one raw value ranging over its domain and beyond, and a caller that  *)
(* keeps one call to compare a later one with                                *)

\* percentages run from -5 to 5 * MaxPercentSteps in steps of 5, memory
\* sizes from -4 GB to 4 * MaxRamSteps GB in steps of 4 and 64 GB
MaxPercentSteps == 21
MaxRamSteps == 9

PercentSteps == Ints({5 * k : k \in (0 - 1)..MaxPercentSteps})
RamSizes == Ints({4 * k : k \in (0 - 1)..MaxRamSteps} \cup {64})

ScorerPayloads ==
    {Override(legacyInput, [k \in {"cpu"} |-> v]) : v \in PercentSteps}
      \cup {Override(legacyInput, [k \in {"storage"} |-> v]) : v \in PercentSteps}
      \cup {Override(legacyInput, [k \in {"ram"} |-> v]) : v \in RamSizes}

InitScorers == InitWith(ScorerPayloads)

NextScorers ==
    \/ Evaluate
    \/ \E p \in ScorerPayloads : Prepare(p)
    \/ Remember

SpecScorers == InitScorers /\ [][NextScorers]_vars

-----------------------------------------------------------------------------
(* the frontend: the hook from its first render to its unmount, and the      *)
(* dashboard receiving one evaluation after another                          *)

InitFrontend ==
    /\ tables = ModuleTables
    /\ input = Undefined
    /\ result = Pending
    /\ firstInput = Undefined
    /\ firstResult = Pending
    /\ hook = HookRendered
    /\ dashboard = DashboardRendered

NextHook ==
    \/ RunEffect
    \/ Unmount
    \/ SocketOpens
    \/ \E message \in Messages : SocketDelivers(message)
    \/ SocketFails
    \/ SocketCloses
    \/ \E data \in FetchData : FetchResolves(data)
    \/ \E message \in FetchErrors : FetchRejects(message)
    \/ Tick
    \/ TimerFires

\* timers run: a pending timer counts down and fires
SpecHook ==
    InitFrontend /\ [][NextHook]_vars /\ WF_vars(Tick) /\ WF_vars(TimerFires)

NextDashboard == \E evaluation \in DashboardEvaluations \cup {Null} : Receive(evaluation)

SpecDashboard == InitFrontend /\ [][NextDashboard]_vars

-----------------------------------------------------------------------------
(* one indicator made worse: a caller evaluates a standardized payload,      *)
(* keeps the call, makes one field worse and evaluates again                 *)

\* the values each field of the standardized input format is tried with
FieldDomain ==
    [storage_smart_status |-> {Str("GOOD"), Str("WARNING"), Str("FAILED")},
     ram_test_errors |-> Ints(0..MaxErrors),
     cpu_stress_stable |-> {True, False},
     cpu_throttling |-> {True, False},
     gpu_stress_stable |-> {True, False},
     gpu_artifacts |-> {True, False},
     performance_percentage |-> Ints({0, 1, 79, 80, 84, 85, 89, 90, 94, 95, 100}),
     ssd_wear_percentage |-> Ints({0, 20, 21, 40, 41, 60, 61, 80, 81, 100}),
     battery_health_percent |-> Ints({0, 59, 60, 69, 70, 84, 85, 100}),
     physical_damage |-> {True, False},
     port_integrity |-> {True, False},
     idle_temperature_celsius |-> Ints({35, 50, 51, 60, 61}),
     load_temperature_celsius |-> Ints({72, 85, 86, 95, 96})]

\* the high-grade payload with the fields of one category ranging over
\* their values
BasePayloads ==
    {Override(standardizedHighGrade, f) : f \in
       [storage_smart_status : FieldDomain.storage_smart_status,
        ram_test_errors : FieldDomain.ram_test_errors,
        cpu_stress_stable : FieldDomain.cpu_stress_stable,
        cpu_throttling : FieldDomain.cpu_throttling,
        gpu_stress_stable : FieldDomain.gpu_stress_stable,
        gpu_artifacts : FieldDomain.gpu_artifacts]}
      \cup {Override(standardizedHighGrade, f) : f \in
              [performance_percentage : FieldDomain.performance_percentage]}
      \cup {Override(standardizedHighGrade, f) : f \in
              [ssd_wear_percentage : FieldDomain.ssd_wear_percentage,
               battery_health_percent : FieldDomain.battery_health_percent]}
      \cup {Override(standardizedHighGrade, f) : f \in
              [physical_damage : FieldDomain.physical_damage,
               port_integrity : FieldDomain.port_integrity,
               idle_temperature_celsius : FieldDomain.idle_temperature_celsius,
               load_temperature_celsius : FieldDomain.load_temperature_celsius]}

\* SMART statuses from best to worst
smartRank(status) ==
    CASE status = Str("GOOD") -> 0 [] status = Str("WARNING") -> 1 [] OTHER -> 2

\* the value after is worse than the value before for the field
Worse(field, before, after) ==
    CASE field \in {"cpu_throttling", "gpu_artifacts", "physical_damage"} ->
           before = False /\ after = True
      [] field \in {"cpu_stress_stable", "gpu_stress_stable", "port_integrity"} ->
           before = True /\ after = False
      [] field = "storage_smart_status" -> smartRank(after) > smartRank(before)
      [] field \in {"performance_percentage", "battery_health_percent"} ->
           after.n < before.n
      [] OTHER -> after.n > before.n

\* the caller makes one field of the kept payload worse
Worsen(field, value) ==
    /\ result.kind = "return"
    /\ firstInput = input
    /\ Worse(field, Get(input, field), value)
    /\ input' = Obj([input.props EXCEPT ![field] = value])
    /\ result' = Pending
    /\ UNCHANGED <<tables, firstInput, firstResult>>
    /\ UNCHANGED frontendVars

\* the caller keeps the first call it made
RememberFirst ==
    /\ firstResult.kind = "none"
    /\ Remember

InitWorse == InitWith(BasePayloads)

NextWorse ==
    \/ Evaluate
    \/ RememberFirst
    \/ \E field \in standardizedFields : \E value \in FieldDomain[field] :
          Worsen(field, value)

SpecWorse == InitWorse /\ [][NextWorse]_vars

-----------------------------------------------------------------------------
(* the two classifiers on one score: the user interface classifies the       *)
(* score it displays, the backend the total it computed                      *)

\* scores run from -5 to MaxScore in steps of one half
MaxScore == 105

Scores == {Num(k * (SCALE \div 2)) : k \in (0 - 10)..(2 * MaxScore)} \cup {NaN}

InitClassify == InitWith(Scores)

\* both classifiers are applied to the score
Classify ==
    /\ result.kind = "none"
    /\ result' = Return([frontend |-> classifyByStandardized(input),
                         backend |-> classifyReusability(input)])
    /\ tables' = classifyReusabilityTables(tables)
    /\ UNCHANGED <<input, firstInput, firstResult>>
    /\ UNCHANGED frontendVars

NextClassify == Classify

SpecClassify == InitClassify /\ [][NextClassify]_vars

-----------------------------------------------------------------------------
(* the claims *)

Returned == result.kind = "return"
Model == IF Returned THEN result.value.evaluationModel ELSE "NONE"
IsStandardized == Model = "STANDARDIZED_HARDWARE_REUSABILITY"
IsLegacy == Model = "LEGACY_COMPONENT_HEALTH"
IsError == Model = "ERROR"

\* the input is an object owning some key of K
Owns(K) == input.t = "object" /\ \E k \in K : k \in DOMAIN input.props

numericFields ==
    {"ram_test_errors", "performance_percentage", "ssd_wear_percentage",
     "battery_health_percent", "idle_temperature_celsius",
     "load_temperature_celsius"} \cup legacyKeys
booleanFields ==
    {"cpu_stress_stable", "cpu_throttling", "gpu_stress_stable", "gpu_artifacts",
     "physical_damage", "port_integrity"}

\* a payload of either schema whose fields hold values of their documented type
ValidInput ==
    /\ input.t = "object"
    /\ DOMAIN input.props # {}
    /\ DOMAIN input.props \subseteq standardizedFields \cup legacyKeys
    /\ \A k \in DOMAIN input.props :
          /\ k \in numericFields => input.props[k].t = "number"
          /\ k \in booleanFields => input.props[k].t = "boolean"
          /\ k = "storage_smart_status" => input.props[k].t = "string"

\* C1: for every valid input of either schema the returned envelope has
\* overall.total_score between 0 and 100 inclusive
C1_TotalScoreWithin0And100 ==
    (Returned /\ ValidInput) =>
        /\ ~IsError
        /\ result.value.overall.total_score.t = "number"
        /\ result.value.overall.total_score.n >= 0
        /\ result.value.overall.total_score.n <= 100 * SCALE

\* a legacy payload with fields above 100 whose total is capped at 100
C1_Witness ==
    /\ IsLegacy /\ ValidInput
    /\ Get(input, "cpu").n > 100 * SCALE
    /\ result.value.overall.total_score = N(100)

tierOfScore(n) ==
    IF n >= 85 * SCALE THEN "HIGH_GRADE"
    ELSE IF n >= 70 * SCALE THEN "REUSABLE"
    ELSE IF n >= 50 * SCALE THEN "LIMITED"
    ELSE "NOT_RECOMMENDED"

levelOfTier(tier) ==
    CASE tier = "HIGH_GRADE" -> "High-grade reusable"
      [] tier = "REUSABLE" -> "Reusable"
      [] tier = "LIMITED" -> "Limited reuse"
      [] OTHER -> "Not recommended"

minOfTier(tier) ==
    CASE tier = "HIGH_GRADE" -> 85
      [] tier = "REUSABLE" -> 70
      [] tier = "LIMITED" -> 50
      [] OTHER -> 0

\* C2: in every standardized result the classification is fixed by the total
\* alone (HIGH_GRADE from 85, REUSABLE 70..84, LIMITED 50..69, NOT_RECOMMENDED
\* below 50), and tier, level and minScore describe that same tier
C2_ClassificationByTotal ==
    IsStandardized =>
        LET total == result.value.standardized.totalScore
            c == result.value.standardized.classification
        IN /\ total.t = "number"
           /\ c.tier = tierOfScore(total.n)
           /\ c.level = levelOfTier(c.tier)
           /\ c.minScore = N(minOfTier(c.tier))
           /\ result.value.overall.classification = c.level

\* a standardized result at exactly 85, the lowest HIGH_GRADE total
C2_Witness ==
    /\ IsStandardized
    /\ result.value.standardized.totalScore = N(85)
    /\ result.value.standardized.classification.tier = "HIGH_GRADE"
    /\ result.value.standardized.classification.level = "High-grade reusable"

\* the input makes the dispatcher fault: a null argument, an own
\* hasOwnProperty that is no function, or a field whose getter throws
InputHasFault ==
    \/ input.t = "null"
    \/ /\ input.t = "object"
       /\ \/ "hasOwnProperty" \in DOMAIN input.props
          \/ \E k \in DOMAIN input.props : input.props[k].t = "getter"

\* C3: for any argument the dispatcher returns normally, never lets an
\* exception escape, tags the envelope STANDARDIZED_HARDWARE_REUSABILITY,
\* LEGACY_COMPONENT_HEALTH or ERROR, and answers a fault with the error
\* envelope (ERROR, UNKNOWN, total 0, not reusable)
C3_NoExceptionEscapes ==
    /\ result.kind # "throw"
    /\ Returned =>
          /\ Model \in {"STANDARDIZED_HARDWARE_REUSABILITY",
                        "LEGACY_COMPONENT_HEALTH", "ERROR"}
          /\ IsError =>
                result.value.overall =
                    [health |-> "UNKNOWN", total_score |-> N(0), reusable |-> FALSE]

detectionKeys == {standardizedKeys[i] : i \in DOMAIN standardizedKeys}

C6_AnyStandardizedFieldSelects ==
    (Returned /\ ~IsError /\ input.t = "object") =>
        (IsStandardized <=> Owns(standardizedFields))

\* the standardized fields that do not take part in schema detection
undetectedFields ==
    {"cpu_throttling", "gpu_artifacts", "port_integrity", "load_temperature_celsius"}

\* C6 amended: an input owning the SMART-status, RAM-test-error, CPU or GPU
\* stress-stability, performance, wear, battery-health-percent,
\* physical-damage or idle-temperature field is routed to the standardized
\* pipeline; every other input, one owning only throttling, artifact,
\* port-integrity or load-temperature fields included, is routed to the
\* legacy pipeline
C6_DetectedFieldSelects ==
    (Returned /\ ~IsError) =>
        /\ Owns(standardizedFields \ undetectedFields) => IsStandardized
        /\ ~Owns(standardizedFields \ undetectedFields) => IsLegacy

\* a payload owning only a throttling, artifact, port-integrity or
\* load-temperature field of the standardized schema is scored as legacy
C6_Witness ==
    /\ IsLegacy
    /\ Owns(undetectedFields)
    /\ ~Owns(standardizedFields \ undetectedFields)

\* the sub-scores the Remaining Life table of the claim gives
ssdScoreByWear(wear) ==
    IF wear <= 20 * SCALE THEN 10
    ELSE IF wear <= 40 * SCALE THEN 7
    ELSE IF wear <= 60 * SCALE THEN 4
    ELSE 0

batteryScoreByHealth(health) ==
    IF health >= 85 * SCALE THEN 10
    ELSE IF health >= 70 * SCALE THEN 7
    ELSE IF health >= 60 * SCALE THEN 4
    ELSE 0

\* C7: the Remaining Life score is the SSD sub-score (10 for wear <= 20, 7 for
\* wear <= 40, 4 for wear <= 60, else 0) plus the battery sub-score (10 from
\* 85, 7 from 70, 4 from 60, else 0)
C7_RemainingLifeTable ==
    IsStandardized =>
        LET life == result.value.standardized.categories.remainingLife
            ssd == life.details.ssd
            battery == life.details.battery
        IN /\ ssd.score = N(ssdScoreByWear(ssd.wearPercent.n))
           /\ battery.score = N(batteryScoreByHealth(battery.healthPercent.n))
           /\ life.score = Add(ssd.score, battery.score)

\* C8: the Functional Integrity score is the sum of storage (10 GOOD, 6
\* WARNING, else 0), ram (10 for no error, 5 for one, 0 for more), cpu (10
\* stable, 6 unstable with throttling, else 0) and gpu (10 stable, 5 unstable
\* with artifacts, else 0)
C8_FunctionalIntegritySum ==
    IsStandardized =>
        LET cat == result.value.standardized.categories.functionalIntegrity
            det == cat.details
            storage == IF det.storage.status = Str("GOOD") THEN 10
                       ELSE IF det.storage.status = Str("WARNING") THEN 6 ELSE 0
            ram == IF det.ram.errors = N(0) THEN 10
                   ELSE IF det.ram.errors = N(1) THEN 5 ELSE 0
            cpu == IF det.cpu.stable = True THEN 10
                   ELSE IF det.cpu.throttling = True THEN 6 ELSE 0
            gpu == IF det.gpu.stable = True THEN 10
                   ELSE IF det.gpu.artifacts = True THEN 5 ELSE 0
        IN /\ det.storage.score = N(storage)
           /\ det.ram.score = N(ram)
           /\ det.cpu.score = N(cpu)
           /\ det.gpu.score = N(gpu)
           /\ cat.score = N(storage + ram + cpu + gpu)

\* one error, a WARNING disk, an unstable throttling cpu and an unstable gpu
\* showing artifacts: 6 + 5 + 6 + 5
C8_Witness ==
    /\ IsStandardized
    /\ Get(input, "storage_smart_status") = Str("WARNING")
    /\ Get(input, "ram_test_errors") = N(1)
    /\ Get(input, "cpu_stress_stable") = False
    /\ Get(input, "cpu_throttling") = True
    /\ "gpu_stress_stable" \notin DOMAIN input.props
    /\ Get(input, "gpu_artifacts") = True
    /\ result.value.standardized.categories.functionalIntegrity.score = N(22)

C10_PhysicalThermalPenalties ==
    IsStandardized =>
        LET cat == result.value.standardized.categories.physicalThermal
            det == cat.details
            idle == det.idleTemp.n
            load == det.loadTemp.n
            damaged == Get(input, "physical_damage") = True
            portsFailed == Get(input, "port_integrity") = False
            status == IF idle > 60 * SCALE \/ load > 95 * SCALE THEN "CRITICAL"
                      ELSE IF idle > 50 * SCALE \/ load > 85 * SCALE THEN "CONCERNING"
                      ELSE "NORMAL"
            penalty == IF status = "CRITICAL" THEN 4
                       ELSE IF status = "CONCERNING" THEN 2 ELSE 0
        IN /\ det.thermalStatus = status
           /\ det.physicalDamage = Bool(damaged)
           /\ det.portIntegrity = Bool(~portsFailed)
           /\ cat.score = N(10 - (IF damaged THEN 4 ELSE 0)
                               - (IF portsFailed THEN 2 ELSE 0) - penalty)
           /\ cat.score.n >= 0 /\ cat.score.n <= 10 * SCALE

\* a damaged device with failed ports whose temperatures exceed both the
\* normal and the critical limits loses 4 + 2 + 4 and no more
C10_Witness ==
    /\ IsStandardized
    /\ Get(input, "physical_damage") = True
    /\ Get(input, "port_integrity") = False
    /\ Get(input, "idle_temperature_celsius") = N(61)
    /\ Get(input, "load_temperature_celsius") = N(96)
    /\ result.value.standardized.categories.physicalThermal.details.thermalStatus
          = "CRITICAL"
    /\ result.value.standardized.categories.physicalThermal.score = N(0)

\* the categories of a standardized result with the caps the claim gives them
categoryCaps ==
    [functionalIntegrity |-> 40, performanceRetention |-> 30,
     remainingLife |-> 20, physicalThermal |-> 10]

\* C11: in every standardized result each category score lies within 0 and
\* its cap (40, 30, 20, 10) and totalScore is the sum of the four scores
C11_CategoryScoresWithinCapsAndSum ==
    IsStandardized =>
        LET categories == result.value.standardized.categories
        IN /\ \A c \in DOMAIN categoryCaps :
                 /\ categories[c].score.t = "number"
                 /\ categories[c].score.n >= 0
                 /\ categories[c].score.n <= categoryCaps[c] * SCALE
                 /\ categories[c].maxScore = N(categoryCaps[c])
           /\ result.value.standardized.totalScore =
                 Num(categories.functionalIntegrity.score.n
                     + categories.performanceRetention.score.n
                     + categories.remainingLife.score.n
                     + categories.physicalThermal.score.n)

\* a result with one category at its cap, one at 0 and two in between
C11_Witness ==
    /\ IsStandardized
    /\ result.value.standardized.categories.functionalIntegrity.score = N(40)
    /\ result.value.standardized.categories.physicalThermal.score = N(0)
    /\ result.value.standardized.categories.performanceRetention.score = N(5)
    /\ result.value.standardized.categories.remainingLife.score = N(14)
    /\ result.value.standardized.totalScore = N(59)

\* the recommendation entries of a standardized result as <<priority, action>>
recommended ==
    LET recs == result.value.standardized.recommendedActions
    IN [i \in DOMAIN recs |-> << recs[i].priority, recs[i].action >>]

outlookEntries ==
    {<< "LOW", "READY FOR REUSE" >>, << "LOW", "MINOR UPGRADES" >>,
     << "MEDIUM", "LIMITED USE" >>}

IsOutlook(entry) == entry \in outlookEntries
IsFinding(entry) == entry \notin outlookEntries

\* the entry when its condition holds
EntryIf(cond, priority, action) ==
    IF cond THEN << << priority, action >> >> ELSE << >>

\* the findings the claim's conditions select, in the claim's order
expectedFindings ==
    LET std == result.value.standardized
        functional == std.categories.functionalIntegrity.details
        remaining == std.categories.remainingLife.details
        physical == std.categories.physicalThermal.details
    IN    EntryIf(std.totalScore.n < 50 * SCALE, "CRITICAL", "DO NOT REUSE")
       \o EntryIf(functional.storage.score.n < 5 * SCALE, "HIGH", "REPLACE STORAGE")
       \o EntryIf(functional.ram.errors.t = "number" /\ functional.ram.errors.n > 0,
                  "HIGH", "REPLACE RAM")
       \o EntryIf(functional.cpu.stable # True, "HIGH", "CPU FAILED")
       \o EntryIf(remaining.ssd.wearPercent.t = "number"
                    /\ remaining.ssd.wearPercent.n > 80 * SCALE,
                  "HIGH", "SSD END OF LIFE")
       \o EntryIf(remaining.battery.healthPercent.t = "number"
                    /\ remaining.battery.healthPercent.n < 60 * SCALE,
                  "HIGH", "REPLACE BATTERY")
       \o EntryIf(physical.thermalStatus = "CRITICAL", "HIGH", "THERMAL ISSUE")
       \o EntryIf(physical.physicalDamage = True, "MEDIUM", "INSPECT DAMAGE")

outlookByTotal(total) ==
    IF total >= 85 * SCALE THEN << << "LOW", "READY FOR REUSE" >> >>
    ELSE IF total >= 70 * SCALE THEN << << "LOW", "MINOR UPGRADES" >> >>
    ELSE IF total >= 50 * SCALE THEN << << "MEDIUM", "LIMITED USE" >> >>
    ELSE << >>

\* the outlook entry that goes with a classification tier
outlookByTier(tier) ==
    CASE tier = "HIGH_GRADE" -> << << "LOW", "READY FOR REUSE" >> >>
      [] tier = "REUSABLE" -> << << "LOW", "MINOR UPGRADES" >> >>
      [] tier = "LIMITED" -> << << "MEDIUM", "LIMITED USE" >> >>
      [] OTHER -> << >>

\* C13: the recommendation list ends with the outlook entry the boundaries
\* select (READY FOR REUSE from 85, MINOR UPGRADES from 70, LIMITED USE from
\* 50, none below 50); at most one of the three is present and it agrees
\* with classification.tier
C13_OutlookEntryByTier ==
    IsStandardized =>
        LET std == result.value.standardized
            outlook == SelectSeq(recommended, IsOutlook)
        IN /\ outlook = outlookByTotal(std.totalScore.n)
           /\ outlook = outlookByTier(std.classification.tier)
           /\ Len(outlook) <= 1
           /\ outlook # << >> => recommended[Len(recommended)] = outlook[1]

\* a result of exactly 70 whose list holds findings and ends with MINOR UPGRADES
C13_Witness ==
    /\ IsStandardized
    /\ result.value.standardized.totalScore = N(70)
    /\ Len(recommended) > 1
    /\ recommended[Len(recommended)] = << "LOW", "MINOR UPGRADES" >>

\* the level and total of the standardized result of the last call
levelIs(level) == IsStandardized /\ result.value.standardized.classification.level = level
totalIs(k) == IsStandardized /\ result.value.standardized.totalScore = N(k)

\* C14: each standardized scenario of the test suite is classified in the
\* tier its name states: the high-grade input as High-grade reusable with
\* 100, the reusable input as Reusable with 84, the limited-reuse input as
\* Limited reuse, the not-recommended input as Not recommended, below 50
C14_ScenariosInNamedTier ==
    Returned =>
        /\ input = MkObj(standardizedHighGrade) =>
              levelIs("High-grade reusable") /\ totalIs(100)
        /\ input = MkObj(standardizedReusable) =>
              levelIs("Reusable") /\ totalIs(84)
        /\ input = MkObj(standardizedLimited) => levelIs("Limited reuse")
        /\ input = MkObj(standardizedNotRecommended) =>
              /\ levelIs("Not recommended")
              /\ result.value.standardized.totalScore.n < 50 * SCALE

\* the penalty factor the claim gives a component with a health label
penaltyByHealth(component, health) ==
    CASE health = "GOOD" -> N(1)
      [] health = "FAIR" -> IF component = "storage" THEN Frac(8, 10) ELSE Frac(85, 100)
      [] OTHER -> CASE component = "battery" -> Frac(6, 10)
                    [] component = "cpu" -> Frac(7, 10)
                    [] component = "storage" -> Frac(8, 10)
                    [] OTHER -> Frac(85, 100)

\* the weighted total of a legacy envelope before rounding, from its breakdowns
unroundedTotal ==
    LET b == result.value.componentBreakdowns
        part(c) == Mul(Mul(Div(b[c].score, b[c].maxScore), b[c].weight), N(100))
    IN Add(Add(Add(part("cpu"), part("ram")), part("storage")), part("battery"))

\* the years the claim's formula gives the legacy envelope of the last call
longevityByClaim ==
    LET health(c) == result.value.components[c].health
        baseYears == Mul(Div(clamp(unroundedTotal, N(0), N(100)), N(100)), N(6))
        factors == Mul(Mul(Mul(penaltyByHealth("battery", health("battery")),
                               penaltyByHealth("cpu", health("cpu"))),
                           penaltyByHealth("storage", health("storage"))),
                       penaltyByHealth("ram", health("ram")))
    IN Div(MathRound(Mul(MathMax(N(0), Mul(baseYears, factors)), N(10))), N(10))

\* C15: for every legacy input with finite fields overall.longevity_years is
\* a finite number between 0 and 6, equal to clamp(total, 0, 100) / 100 * 6
\* times the four penalty factors selected by each component's health label,
\* floored at 0 and rounded to one decimal place
C15_LongevityYearsFiniteByFormula ==
    (IsLegacy /\ ValidInput) =>
        /\ result.value.overall.longevity_years.t = "number"
        /\ result.value.overall.longevity_years.n >= 0
        /\ result.value.overall.longevity_years.n <= 6 * SCALE
        /\ result.value.overall.longevity_years = longevityByClaim

\* the health label the claim's thresholds give a reported total
healthByTotal(total) ==
    IF total >= 80 * SCALE THEN "GOOD"
    ELSE IF total >= 55 * SCALE THEN "FAIR"
    ELSE "POOR"

\* C16: in every legacy envelope overall.health is GOOD iff
\* overall.total_score >= 80, FAIR iff 55 <= overall.total_score < 80 and
\* POOR iff overall.total_score < 55
C16_HealthAgreesWithReportedTotal ==
    (IsLegacy /\ ValidInput) =>
        result.value.overall.health =
            healthByTotal(result.value.overall.total_score.n)

\* C17: in every legacy envelope overall.reusable is true iff
\* overall.total_score >= 60 and none of the four components has health
\* POOR, and reusabilitySummary.overallReusable equals overall.reusable
C17_ReusableByReportedTotal ==
    (IsLegacy /\ ValidInput) =>
        /\ result.value.overall.reusable <=>
              /\ result.value.overall.total_score.n >= 60 * SCALE
              /\ \A c \in DOMAIN result.value.components :
                    result.value.components[c].health # "POOR"
        /\ result.value.reusabilitySummary.overallReusable
              = result.value.overall.reusable

\* v is a number within lo..hi, whole units
NumberWithin(v, lo, hi) == v.t = "number" /\ v.n >= lo * SCALE /\ v.n <= hi * SCALE

\* v is a number not below 0
NumberFromZero(v) == v.t = "number" /\ v.n >= 0

\* the normalized fields as the standardized result hands them on
normalized ==
    LET categories == result.value.standardized.categories
    IN [storage_smart_status |-> categories.functionalIntegrity.details.storage.status,
        ram_test_errors |-> categories.functionalIntegrity.details.ram.errors,
        cpu_stress_stable |-> categories.functionalIntegrity.details.cpu.stable,
        cpu_throttling |-> categories.functionalIntegrity.details.cpu.throttling,
        gpu_stress_stable |-> categories.functionalIntegrity.details.gpu.stable,
        gpu_artifacts |-> categories.functionalIntegrity.details.gpu.artifacts,
        performance_percentage |->
            categories.performanceRetention.details.performancePercent,
        ssd_wear_percentage |-> categories.remainingLife.details.ssd.wearPercent,
        battery_health_percent |->
            categories.remainingLife.details.battery.healthPercent,
        physical_damage |-> categories.physicalThermal.details.physicalDamage,
        port_integrity |-> categories.physicalThermal.details.portIntegrity,
        idle_temperature_celsius |-> categories.physicalThermal.details.idleTemp,
        load_temperature_celsius |-> categories.physicalThermal.details.loadTemp]

\* C18: for any raw standardized input, whatever each field holds (absent,
\* null, negative, above 100, not a number), normalization does not fail and
\* leaves the three percentages as numbers within 0..100, the error count and
\* the two temperatures as numbers >= 0, and a missing SMART status as UNKNOWN
C18_NormalizedFieldsInDomain ==
    (Returned /\ Owns(detectionKeys)) =>
        /\ IsStandardized
        /\ NumberWithin(normalized.performance_percentage, 0, 100)
        /\ NumberWithin(normalized.ssd_wear_percentage, 0, 100)
        /\ NumberWithin(normalized.battery_health_percent, 0, 100)
        /\ NumberFromZero(normalized.ram_test_errors)
        /\ NumberFromZero(normalized.idle_temperature_celsius)
        /\ NumberFromZero(normalized.load_temperature_celsius)
        /\ Nullish(Get(input, "storage_smart_status")) =>
              normalized.storage_smart_status = Str("UNKNOWN")

\* the findings of the result name the action
Recommends(action) == \E i \in DOMAIN recommended : recommended[i][2] = action

\* C19: after normalization each of the six boolean fields is exactly true
\* or false, decided by equality with true or false and never by truthiness:
\* a raw value that is no boolean is never taken for true by normalization,
\* by scoring or by the recommendations
C19_BooleansByExplicitEquality ==
    IsStandardized =>
        LET functional == result.value.standardized.categories.functionalIntegrity.details
        IN /\ \A k \in booleanFields : normalized[k] \in {True, False}
           /\ \A k \in booleanFields \ {"port_integrity"} :
                 normalized[k] = True => Get(input, k) = True
           /\ normalized.port_integrity = False => Get(input, "port_integrity") = False
           /\ functional.cpu.score = N(10) => Get(input, "cpu_stress_stable") = True
           /\ functional.cpu.score = N(6) => Get(input, "cpu_throttling") = True
           /\ functional.gpu.score = N(10) => Get(input, "gpu_stress_stable") = True
           /\ functional.gpu.score = N(5) => Get(input, "gpu_artifacts") = True
           /\ ~Recommends("CPU FAILED") => Get(input, "cpu_stress_stable") = True
           /\ Recommends("INSPECT DAMAGE") => Get(input, "physical_damage") = True

\* the raw value the legacy pipeline reads for a component: alias first
rawLegacy(alias, name) == Coalesce(Get(input, alias), Get(input, name))

\* the raw value is missing or does not convert to a finite number
Unusable(v) == Nullish(v) \/ IsNaN(ToNumber(v))

\* C20: in the legacy pipeline a field that is missing or does not convert
\* to a finite number is scored as 0 and causes no error: the envelope is
\* tagged LEGACY_COMPONENT_HEALTH and its overall.total_score is an integer
\* within 0..100, never NaN
C20_LegacyFieldsDefaultToZero ==
    (Returned /\ input.t = "object" /\ ~Owns(detectionKeys)) =>
        /\ IsLegacy
        /\ NumberWithin(result.value.overall.total_score, 0, 100)
        /\ result.value.overall.total_score.n % SCALE = 0
        /\ Unusable(rawLegacy("cpu_usage", "cpu")) =>
              result.value.components.cpu.score = N(0)
        /\ Unusable(rawLegacy("ram_gb", "ram")) =>
              result.value.components.ram.score = N(0)
        /\ Unusable(rawLegacy("battery_health", "battery")) =>
              result.value.components.battery.score = N(0)

\* round(100 * score / maxScore), halves upwards, on numbers in fixed point
percentOf(score, maxScore) ==
    Num(((200 * score.n + maxScore.n) \div (2 * maxScore.n)) * SCALE)

\* C21: in every standardized result each of the four categories reports
\* percentage = round(100 * score / maxScore)
C21_PercentageFromScore ==
    IsStandardized =>
        \A c \in DOMAIN categoryCaps :
            LET category == result.value.standardized.categories[c]
            IN category.percentage = percentOf(category.score, category.maxScore)

rawOf(completion, c) == completion.value.componentBreakdowns[c].rawValue
scoreOf(completion, c) == completion.value.componentBreakdowns[c].score

\* max * value / cap limited to 0..max, on numbers in fixed point
linearScore(value, cap, max) ==
    LET scaled == (max * value.n) \div cap
    IN Num(IF scaled < 0 THEN 0 ELSE IF scaled > max * SCALE THEN max * SCALE ELSE scaled)

\* the kept call and the last call both returned a legacy envelope
BothLegacy ==
    /\ IsLegacy
    /\ firstResult.kind = "return"
    /\ firstResult.value.evaluationModel = "LEGACY_COMPONENT_HEALTH"

\* C23: the legacy scorers are bounded and monotone non-decreasing in their
\* raw value: cpu = 30 * percent / 100 and storage = 25 * percent / 100, both
\* limited to 0..max, ram = 25 * min(ramGB, 32) / 32 limited to 0..25, so 32 GB
\* or more scores 25 and a negative value scores 0
C23_LegacyScorersLinearBoundedMonotone ==
    IsLegacy =>
        /\ scoreOf(result, "cpu") = linearScore(rawOf(result, "cpu"), 100, 30)
        /\ scoreOf(result, "storage") = linearScore(rawOf(result, "storage"), 100, 25)
        /\ scoreOf(result, "ram") =
              linearScore(IF rawOf(result, "ram").n > 32 * SCALE THEN N(32)
                          ELSE rawOf(result, "ram"), 32, 25)
        /\ rawOf(result, "ram").n >= 32 * SCALE => scoreOf(result, "ram") = N(25)
        /\ \A c \in {"cpu", "ram", "storage"} :
              /\ NumberWithin(scoreOf(result, c), 0, IF c = "cpu" THEN 30 ELSE 25)
              /\ rawOf(result, c).n < 0 => scoreOf(result, c) = N(0)
              /\ (BothLegacy /\ rawOf(firstResult, c).n <= rawOf(result, c).n)
                    => scoreOf(firstResult, c).n <= scoreOf(result, c).n

\* a call with 64 GB of memory, scored 25, compared with a kept call with
\* 16 GB, scored 12.5
C23_Witness ==
    /\ BothLegacy
    /\ rawOf(firstResult, "ram") = N(16)
    /\ scoreOf(firstResult, "ram") = Frac(125, 10)
    /\ rawOf(result, "ram") = N(64)
    /\ scoreOf(result, "ram") = N(25)

\* the React state the hook returns
hookState(h) ==
    << h.evaluation, h.metrics, h.connectionStatus, h.lastUpdate, h.error >>

\* a step in which the current socket closes, and one in which a socket is built
Closing == hook.readyState # "CLOSED" /\ hook'.readyState = "CLOSED"
Connecting == hook.readyState # "CONNECTING" /\ hook'.readyState = "CONNECTING"

\* C24: whenever the socket closes while the component is mounted the status
\* becomes disconnected and a reconnect is due 3 seconds later, which then
\* happens unless the component is unmounted first, for every close; a
\* reconnect happens only when those 3 seconds have passed; once the
\* component is unmounted no socket is built, no reconnect timer is pending
\* and no late socket or fetch callback changes the state
C24_ReconnectsUntilUnmounted ==
    /\ [][(Closing /\ hook.isMounted) =>
             /\ hook'.connectionStatus = "disconnected"
             /\ hook'.timerPending
             /\ hook'.timerRemaining = RECONNECT_SECONDS]_vars
    /\ [][(Connecting /\ hook.effect # "pending") =>
             /\ hook.isMounted
             /\ hook.timerPending
             /\ hook.timerRemaining = 0]_vars
    /\ [][hook.effect = "cleaned" =>
             /\ hook'.readyState # "CONNECTING" \/ hook.readyState = "CONNECTING"
             /\ hookState(hook') = hookState(hook)]_vars
    /\ [](hook.effect = "cleaned" => ~hook.timerPending)
    /\ (hook.timerPending ~> (hook.readyState = "CONNECTING" \/ ~hook.isMounted))

\* the third socket, built by the second reconnect while mounted: the status
\* is still the one the last close left
C24_Witness ==
    /\ hook.isMounted
    /\ hook.sockets = 3
    /\ hook.readyState = "CONNECTING"
    /\ hook.connectionStatus = "disconnected"
    /\ ~hook.timerPending

\* the entries of a history are ordered newest first
NewestFirst(history) ==
    \A i \in 1..(Len(history) - 1) : history[i].timestamp > history[i + 1].timestamp

\* the incoming evaluation of a step differs in its key from the most
\* recently recorded one
KeyDiffers ==
    /\ dashboard'.evaluation # Null
    /\ \/ dashboard.history = << >>
       \/ evaluationKey(dashboard.history[1].data)
            # evaluationKey(dashboard'.evaluation)

\* the history of the step's successor is the incoming evaluation put before
\* the history, cut to the last 20
Prepended ==
    /\ dashboard'.history # << >>
    /\ dashboard'.history[1].data = dashboard'.evaluation
    /\ Tail(dashboard'.history)
         = SubSeq(dashboard.history, 1, Len(dashboard'.history) - 1)
    /\ Len(dashboard'.history)
         = (IF Len(dashboard.history) < 20 THEN Len(dashboard.history) + 1 ELSE 20)

\* the history keeps at most 20 entries, newest first, and an incoming
\* evaluation is prepended exactly when its key differs from the last one
C25_HistoryKeepsLast20 ==
    /\ [](Len(dashboard.history) <= 20 /\ NewestFirst(dashboard.history))
    /\ [][IF KeyDiffers THEN Prepended
          ELSE dashboard'.history = dashboard.history]_vars

\* C25: the evaluation history keeps the last 20 evaluations: at most 20
\* entries ordered newest first, an incoming evaluation prepended only if its
\* key (standardized total, legacy total, model tag) differs from that of the
\* most recently recorded one, and the recent-evaluations table shows all
\* retained entries
C25_HistoryAndTableKeepLast20 ==
    /\ C25_HistoryKeepsLast20
    /\ [](historyTable(dashboard) = dashboard.history)

\* the kept call and the last call both returned a standardized envelope
BothStandardized ==
    /\ IsStandardized
    /\ firstResult.kind = "return"
    /\ firstResult.value.evaluationModel = "STANDARDIZED_HARDWARE_REUSABILITY"

\* the fields in which the last payload differs from the kept one
changedFields == {k \in standardizedFields : Get(input, k) # Get(firstInput, k)}

\* the last payload is the kept one with the field made worse and nothing else
WorseIn(field) ==
    /\ BothStandardized
    /\ changedFields = {field}
    /\ Worse(field, Get(firstInput, field), Get(input, field))

standardizedTotal(completion) == completion.value.standardized.totalScore

\* C26 as stated: with all other fields held fixed, making any single
\* indicator worse, the throttling and artifact flags included, never
\* increases the total score
C26_AnyWorseIndicatorNeverRaisesTotal ==
    \A field \in standardizedFields :
        WorseIn(field) => standardizedTotal(result).n <= standardizedTotal(firstResult).n

\* the stress test whose failure a flag accounts for
stabilityOf(field) ==
    IF field = "cpu_throttling" THEN "cpu_stress_stable" ELSE "gpu_stress_stable"

\* C26 amended: with all other fields held fixed, making a single indicator
\* worse never increases the total score, where cpu_throttling and
\* gpu_artifacts count as made worse only while the cpu or the gpu is
\* stress-stable
C26_WorseIndicatorNeverRaisesTotal ==
    \A field \in standardizedFields :
        (/\ WorseIn(field)
         /\ field \in {"cpu_throttling", "gpu_artifacts"} =>
               Get(input, stabilityOf(field)) = True)
            => standardizedTotal(result).n <= standardizedTotal(firstResult).n

\* a stable cpu that throttles and then fails its stress test: the total
\* falls from 100 to 96
C26_Witness ==
    /\ WorseIn("cpu_stress_stable")
    /\ Get(input, "cpu_throttling") = True
    /\ standardizedTotal(firstResult) = N(100)
    /\ standardizedTotal(result) = N(96)

\* the result of the last call carries a recommendation of the priority
HasPriority(priority) == \E i \in DOMAIN recommended : recommended[i][1] = priority

\* C27 as stated: a standardized result with a total of 85 or more carries no
\* recommendation of priority CRITICAL or HIGH
C27_HighGradeNeverCriticalOrHigh ==
    (IsStandardized /\ result.value.standardized.totalScore.n >= 85 * SCALE) =>
        ~HasPriority("CRITICAL") /\ ~HasPriority("HIGH")

\* C27 amended: a standardized result classified HIGH_GRADE never carries a
\* CRITICAL-priority recommendation: whenever the total is 85 or more the
\* list holds no entry of priority CRITICAL
C27_HighGradeNeverCritical ==
    (IsStandardized /\ result.value.standardized.totalScore.n >= 85 * SCALE) =>
        /\ result.value.standardized.classification.tier = "HIGH_GRADE"
        /\ ~HasPriority("CRITICAL")

\* a device whose disk failed and nothing else: 90, HIGH_GRADE, with the
\* HIGH entry REPLACE STORAGE next to READY FOR REUSE and no CRITICAL entry
C27_Witness ==
    /\ IsStandardized
    /\ result.value.standardized.totalScore = N(90)
    /\ result.value.standardized.classification.tier = "HIGH_GRADE"
    /\ Recommends("REPLACE STORAGE")
    /\ Recommends("READY FOR REUSE")
    /\ HasPriority("HIGH")
    /\ ~HasPriority("CRITICAL")

\* the breakdown entries of a legacy envelope that are marked reusable
reusableEntries ==
    {i \in DOMAIN result.value.reusabilitySummary.breakdown :
        result.value.reusabilitySummary.breakdown[i].reusable}

\* C28: in every legacy result a device verdict overallReusable of true means
\* that all four components are reusable (reusableCount 4, nonReusableCount
\* 0); in every result reusableCount + nonReusableCount = totalComponents = 4
\* and reusableCount is the number of breakdown entries marked reusable
C28_DeviceVerdictImpliesComponents ==
    IsLegacy =>
        LET summary == result.value.reusabilitySummary
        IN /\ summary.overallReusable =>
                 /\ summary.reusableCount = 4
                 /\ summary.nonReusableCount = 0
                 /\ \A c \in DOMAIN result.value.componentBreakdowns :
                       result.value.componentBreakdowns[c].reusability.reusable
           /\ summary.totalComponents = 4
           /\ summary.reusableCount + summary.nonReusableCount = summary.totalComponents
           /\ Len(summary.breakdown) = 4
           /\ summary.reusableCount = Cardinality(reusableEntries)

\* a reusable device whose cpu, at 50 percent, is only conditionally reusable
C28_Witness ==
    /\ IsLegacy
    /\ result.value.reusabilitySummary.overallReusable
    /\ result.value.reusabilitySummary.reusableCount = 4
    /\ Get(input, "cpu") = N(50)
    /\ result.value.componentBreakdowns.cpu.reusability.verdict
         = "CONDITIONALLY REUSABLE"

\* C29: for every score, whole or not, below 0 and above 100 included, the
\* frontend classifyByStandardized and the backend classifyReusability
\* return tiers with the same label and the same minimum score
C29_ClassifiersAgree ==
    result.kind = "return" =>
        /\ result.value.frontend.label = result.value.backend.label
        /\ result.value.frontend.score.min = result.value.backend.min

\* a score of 84.5, between the REUSABLE range's end and the HIGH_GRADE
\* range's start, is Reusable for both
C29_Witness ==
    /\ result.kind = "return"
    /\ input = Frac(845, 10)
    /\ result.value.frontend.label = "Reusable"
    /\ result.value.backend.label = "Reusable"
    /\ result.value.backend.min = N(70)

\* C30: in every legacy result the sustainability label coincides with the
\* overall health label: HIGH exactly when the health is GOOD, MEDIUM exactly
\* when it is FAIR, LOW exactly when it is POOR
C30_SustainabilityMatchesHealth ==
    IsLegacy =>
        /\ result.value.overall.sustainability = "HIGH"
             <=> result.value.overall.health = "GOOD"
        /\ result.value.overall.sustainability = "MEDIUM"
             <=> result.value.overall.health = "FAIR"
        /\ result.value.overall.sustainability = "LOW"
             <=> result.value.overall.health = "POOR"
        /\ result.value.overall.sustainability \in {"HIGH", "MEDIUM", "LOW"}

\* a total that rounds to 80 and is still below it: the health is FAIR and
\* the sustainability MEDIUM
C30_Witness ==
    /\ IsLegacy
    /\ result.value.overall.total_score = N(80)
    /\ result.value.overall.health = "FAIR"
    /\ result.value.overall.sustainability = "MEDIUM"

====
